---------------------------- MODULE Spec2Model ----------------------------
(***************************************************************************)
(* Kindling network analyzer (collector/pkg/component/analyzer/network).   *)
(*                                                                         *)
(* The router goroutine (ConsumeEventFromChannel -> processEvent ->         *)
(* analyseConnect / analyseRequest / analyseResponse) and the sweeper      *)
(* goroutine (consumerFdNoReusingTrace) share requestMonitor, a sync.Map   *)
(* from (pid, fd) to *messagePairs.  Every sync.Map operation, every       *)
(* atomic add and every mutex-protected merge is one step; the two         *)
(* goroutines interleave step by step.                                     *)
(*                                                                         *)
(* Time is counted in ticks, Sub ticks to the second, so that the          *)
(* sweeper's  x/1000000000  truncation to whole seconds is visible.        *)
(* The clock starts at tick 1, half a second after the epoch, so that      *)
(* every timestamp is non-zero.                                            *)
(***************************************************************************)
EXTENDS Integers, Sequences, FiniteSets, TLC

\* ------------------------------------------------------------- bounds
Sub == 2                \* clock ticks per second
MaxTick == 4            \* the clock stops here
MaxEvents == 3          \* events the router receives in one run
MaxKey == 1             \* (pid, fd) keys
MaxSport == 2           \* source ports
MaxConnectTimeout == 1  \* cfg.ConnectTimeout ranges over 0..MaxConnectTimeout
MaxFdReuseTimeout == 2  \* cfg.FdReuseTimeout ranges over 1..MaxFdReuseTimeout
MaxNoResponse == 2      \* cfg.NoResponseThreshold ranges over 1..MaxNoResponse
MaxDnsId == 2           \* DNS transaction ids 1 .. MaxDnsId
MaxDomain == 2          \* DNS domains 1 .. MaxDomain
MaxRcode == 1           \* DNS response codes 0 .. MaxRcode
MaxRequests == 3        \* requests of a drawn DNS-over-TCP pair
MaxResponses == 2       \* responses of a drawn DNS-over-TCP pair
MaxAnswers == 3         \* answer records of a drawn DNS response

Keys == 1 .. MaxKey
Sports == 1 .. MaxSport
Threads == {"router", "sweeper"}

VARIABLES
    now,                \* time.Now() and the kernel clock, in ticks
    cfg,                \* na.cfg: connectTimeout, fdReuseTimeout, noResponseThreshold
    requestMonitor,     \* na.requestMonitor: key -> object id, 0 when absent
    heap,               \* the messagePairs objects ever stored, by id
    tcpMessagePairSize, \* na.tcpMessagePairSize
    pc,                 \* where each goroutine stands
    old,                \* each goroutine's oldPairs (an object id, 0 for none)
    newPairs,           \* the router's local mps: <<>> or <<messagePairs>>
    evt,                \* the event the router is processing: <<>> or <<event>>
    todo,               \* keys the sweeper's Range has still to visit
    nEvents,            \* events received so far
    portCount,          \* ProtocolParser.portCounts: parser -> port -> count
    cachedParsers,      \* ParserFactory.cachedParsersMap: port -> parser list
    sentinelHits,       \* port -> the hits of the NOSUPPORT parser through the
                        \* port's cache since it entered that cache
    dnsRequestMonitor,  \* na.dnsRequestMonitor: udpKey -> DnsUdpCache id, 0 when absent
    dnsCaches,          \* the DnsUdpCache objects ever stored, by id
    dnsCache,           \* each goroutine's DnsUdpCache (an id, 0 for none)
    dnsKey,             \* the udpKey of the sweeper's Range callback (0 for none)
    dnsKeys,            \* udpKeys the dnsRequestMonitor.Range has still to visit
    eventChan,          \* na.eventChan: the events sent and not yet received
    stopChan,           \* na.stopChan: "open" or "closed"
    logged,             \* the errors and warnings the router has logged
    returned,           \* the events handed to ConsumeEvent with what it returned
    udpReq,             \* the sweeper's udpReq: <<>> or <<udpRequest>>
    dnsTodo,            \* DnsIds the sweeper's inner Range has still to visit
    udpRecords,         \* the records of the UDP-DNS paths, as distributed
    udpMissed           \* seq of the requests that were pending in a cache when
                        \* a response matched nothing in that cache

vars == <<now, cfg, requestMonitor, heap, tcpMessagePairSize, pc, old,
          newPairs, evt, todo, nEvents, portCount, cachedParsers,
          sentinelHits, dnsRequestMonitor, dnsCaches, dnsCache, dnsKey, udpReq,
          dnsTodo, udpRecords, udpMissed,
          dnsKeys, eventChan, stopChan, logged, returned>>

\* ------------------------------------------------------------- events
\* A payload as the protocol parsers see it: the protocol whose parser
\* accepts it and the attributes that parser reads from it.
\* answers is the answer section of a DNS response: its records in wire
\* order, each with its type and rdata bytes.
Data(proto, cont, oneway, id, dom, rcode) ==
    [proto |-> proto, cont |-> cont, oneway |-> oneway,
     id |-> id, dom |-> dom, rcode |-> rcode, answers |-> <<>>]
HttpData(c) == Data("http", c, FALSE, 0, 0, 0)
RawData == Data("raw", FALSE, FALSE, 0, 0, 0)
DnsData(id, dom, rcode) == Data("dns", FALSE, FALSE, id, dom, rcode)

Event(kind, key, sport, dport, ts, data) ==
    [kind |-> kind, key |-> key, sport |-> sport, dport |-> dport,
     ts |-> ts, data |-> data]

\* whole seconds of a tick count: the code's  x / 1000000000
Sec(t) == t \div Sub

\* ------------------------------------------------------ messagePairs
\* An events buffer is the sequence of its events; <<>> is the nil buffer.
\* isSend is the latch counter, counted up to 2 (passed, and tried again);
\* parsed counts the runs of parseProtocols on the object and out holds the
\* records those runs handed to distributeRecords.
NewPairs(c, r, e) ==
    [key |-> e.key, connects |-> c, requests |-> r, responses |-> <<>>,
     isSend |-> 0, parsed |-> 0, out |-> <<>>]

Last(s) == s[Len(s)]

\* messagePairs.getTimeoutTs
getTimeoutTs(mps) ==
    IF mps.responses # <<>> THEN Last(mps.responses).ts
    ELSE IF mps.requests # <<>> THEN Last(mps.requests).ts
    ELSE IF mps.connects # <<>> THEN Last(mps.connects).ts
    ELSE 0

\* messagePairs.getPort: the destination port of the flow
getPort(mps) ==
    IF mps.connects # <<>> THEN mps.connects[1].dport ELSE mps.requests[1].dport

\* events.IsTimeout: the new connect is timeout seconds or more after
\* the first connect of the buffer
IsTimeout(evts, e, timeout) == Sec(e.ts) - Sec(evts[1].ts) >= timeout

\* events.IsSportChanged
IsSportChanged(evts, e) == e.sport # evts[1].sport

\* messagePairs.putRequestBack: the re-inserted requests come first
putRequestBack(mps, evts) == [mps EXCEPT !.requests = evts \o @]

\* ---------------------------------------------------- parser registry
CACHE_ADD_THRESHOLD == 50
CACHE_RESET_THRESHOLD == 5000

DynPort == 8080          \* a port with no static protocol
DnsPort == 53            \* cfg.ProtocolConfigs maps it to dns
MysqlPort == 3306        \* cfg.ProtocolConfigs maps it to mysql, a protocol
                         \* cfg.ProtocolParser does not list
Ports == {DynPort, DnsPort, MysqlPort}
Parsers == {"http", "dns", "generic"}

\* na.staticPortMap (Start): port -> protocol name, "" when not mapped
staticPortMap(port) ==
    IF port = DnsPort THEN "dns" ELSE IF port = MysqlPort THEN "mysql" ELSE ""

\* na.protocolMap (Start): the configured parsers, by protocol name
protocolMap == {"http", "dns"}

\* na.parsers (Start): the configured parsers, the generic one last
parsers == <<"http", "dns", "generic">>

\* ProtocolParser.GetProtocol: the generic parser's protocol is NOSUPPORT
GetProtocol(parser) == IF parser = "generic" THEN "NOSUPPORT" ELSE parser

\* ProtocolParser.MultiRequests: only the dns parser has a PairMatch
MultiRequests(parser) == parser = "dns"

\* ProtocolParser.ParseRequest on a payload: the generic parser accepts
\* every payload, another parser the payloads of its protocol
ParseRequest(parser, data) == parser = "generic" \/ data.proto = parser

\* ProtocolParser.ParseResponse on a payload
ParseResponse(parser, data) == parser = "generic" \/ data.proto = parser

\* The attributes a successful request parse leaves in the message.  The
\* http parser labels a request HttpContinue when the buffer holds only the
\* headers of a 100-continue request.
NoAttrs == [nil |-> TRUE, cont |-> FALSE, oneway |-> FALSE, isError |-> FALSE,
            id |-> 0, dom |-> 0, ip |-> <<>>]

\* The wire form of an answer section: per record a two-byte name (a
\* compression pointer), type, class, ttl, rdlength and the rdata
RECURSIVE Wire(_)
Wire(answers) ==
    IF answers = <<>> THEN <<>>
    ELSE <<192, 12, 0, answers[1].type, 0, 1, 0, 0, 0, 60,
           0, Len(answers[1].rdata)>>
         \o answers[1].rdata \o Wire(Tail(answers))

TypeA == 1
TypeAAAA == 28

\* PayloadMessage.ReadUInt16: the big-endian value at the offset, -1 for
\* the error of a read beyond the data
ReadUInt16(data, offset) ==
    IF offset + 2 > Len(data) THEN -1
    ELSE data[offset + 1] * 256 + data[offset + 2]

\* PayloadMessage.ReadBytes: the bytes and the offset behind them
ReadBytes(data, offset, length) ==
    IF offset + length > Len(data)
    THEN [err |-> TRUE, offset |-> -1, value |-> <<>>]
    ELSE [err |-> FALSE, offset |-> offset + length,
          value |-> SubSeq(data, offset + 1, offset + length)]

\* The loop of readIpV4Answer with `left` answers to go: the addresses
\* read so far are ips
RECURSIVE readIpV4AnswerFrom(_, _, _, _)
readIpV4AnswerFrom(data, offset, left, ips) ==
    IF left = 0 THEN ips
    ELSE LET aType == ReadUInt16(data, offset + 2)
             length == ReadUInt16(data, offset + 10)
             read == ReadBytes(data, offset + 12, length)
         IN  IF aType < 0 \/ length < 0 THEN ips
             ELSE IF aType # TypeA
             THEN readIpV4AnswerFrom(data, offset + 12 + length, left - 1, ips)
             ELSE IF read.err THEN ips
             ELSE readIpV4AnswerFrom(data, read.offset + length, left - 1,
                                     Append(ips, read.value))

\* readIpV4Answer: the addresses of the type-A answers it finds, in the
\* order found (joined by commas in the code; <<>> is the empty string)
readIpV4Answer(data, answerCount) == readIpV4AnswerFrom(data, 0, answerCount, <<>>)
RequestAttrs(parser, evts) ==
    IF parser = "generic" THEN [NoAttrs EXCEPT !.nil = FALSE]
    ELSE [nil |-> FALSE,
          cont |-> parser = "http" /\ Len(evts) = 1 /\ evts[1].data.cont,
          oneway |-> evts[1].data.oneway, isError |-> FALSE,
          id |-> evts[1].data.id, dom |-> evts[1].data.dom, ip |-> <<>>]

\* The attributes after a successful response parse: NewResponseMessage
\* shares the request's attribute map, the parser adds its own.
\* parseDnsResponse: rcode > 0 sets IsError and ErrorType=ProtocolError;
\* DnsIp is what readIpV4Answer returns.
ResponseAttrs(parser, attrs, evts) ==
    IF parser = "generic" THEN attrs
    ELSE [attrs EXCEPT !.isError = evts[1].data.rcode > 0,
                       !.id = IF parser = "dns" THEN evts[1].data.id ELSE @,
                       !.dom = IF parser = "dns" THEN evts[1].data.dom ELSE @,
                       !.ip = IF parser = "dns"
                              THEN readIpV4Answer(Wire(evts[1].data.answers),
                                                  Len(evts[1].data.answers))
                              ELSE @]

\* dnsPair: the index of the first request with the response's DnsId and
\* domain, 0 (the code's -1) when there is none
RECURSIVE dnsPairFrom(_, _, _)
dnsPairFrom(reqAttrs, respAttrs, i) ==
    IF i > Len(reqAttrs) THEN 0
    ELSE IF reqAttrs[i].id = respAttrs.id /\ reqAttrs[i].dom = respAttrs.dom
         THEN i
         ELSE dnsPairFrom(reqAttrs, respAttrs, i + 1)
\* dnsPair matching on the DnsId alone
dnsPairById(reqAttrs, respAttrs) ==
    LET S == {i \in 1 .. Len(reqAttrs) : reqAttrs[i].id = respAttrs.id}
    IN  IF S = {} THEN 0 ELSE CHOOSE i \in S : \A j \in S : i <= j

dnsPair(reqAttrs, respAttrs) == dnsPairFrom(reqAttrs, respAttrs, 1)

\* ------------------------------------------------------ record builder
Result(ok, recs, putBack) == [ok |-> ok, recs |-> recs, putBack |-> putBack]
Nil == Result(FALSE, <<>>, FALSE)

\* The labels of a record that the claims read.  attrs is the attribute
\* map labels.Merge copied into the record (NoAttrs: nil).  req and resp
\* are the indices of the request and response events of a single-pair
\* record (0: none); a record of the merged buffers has req = 0.
Record(protocol, isError, errorType, isSlow, attrs, req, resp, hasResp) ==
    [protocol |-> protocol, isError |-> isError, errorType |-> errorType,
     isSlow |-> isSlow, attrs |-> attrs, req |-> req, resp |-> resp,
     hasResp |-> hasResp]

\* The nanoseconds of a tick count
Ns(t) == t * (1000000000 \div Sub)

\* time.Millisecond, in nanoseconds
Millisecond == 1000000

\* getResponseSlowThreshold: the protocol's threshold when it is set and
\* positive, cfg.getResponseSlowThreshold() otherwise
getResponseSlowThreshold(protocol) ==
    IF protocol \in DOMAIN cfg.slowThresholdMap /\ cfg.slowThresholdMap[protocol] > 0
    THEN cfg.slowThresholdMap[protocol]
    ELSE cfg.responseSlowThreshold

\* isSlow with the protocol's threshold taken whenever the map has one
isSlowByMap(duration, protocol) ==
    IF protocol \in DOMAIN cfg.slowThresholdMap
    THEN duration >= cfg.slowThresholdMap[protocol] * Millisecond
    ELSE duration >= cfg.responseSlowThreshold * Millisecond

\* isSlow: the duration in nanoseconds against the threshold in
\* milliseconds
isSlow(duration, protocol) ==
    duration >= getResponseSlowThreshold(protocol) * Millisecond

\* messagePairs.getDuration: from the first request to the last response,
\* the duration of the requests when there is no response
getDuration(mps) ==
    IF mps.responses # <<>>
    THEN Ns(Last(mps.responses).ts - mps.requests[1].ts)
    ELSE Ns(Last(mps.requests).ts - mps.requests[1].ts)

\* messagePair.getDuration: from the request to the response, 0 when
\* there is no response
getPairDuration(request, response) ==
    IF response = <<>> THEN 0 ELSE Ns(response[1].ts - request.ts)

\* getConnectFailRecords
getConnectFailRecords(mps) ==
    Result(TRUE, <<Record("", TRUE, "ConnectFail", FALSE, NoAttrs, 0, 0, FALSE)>>, FALSE)

\* The no-response check alone, the parser's IsError left out
ClassifiedUnmerged(protocol, attrs, slow, req, resp, hasResp) ==
    Record(protocol, ~hasResp, IF hasResp THEN "NoError" ELSE "NoResponse",
           slow, attrs, req, resp, hasResp)

\* labels.Merge(attributes) followed by the no-response check: a parser's
\* IsError/ProtocolError stands, otherwise a record without a response is
\* an error of type NoResponse
Classified(protocol, attrs, slow, req, resp, hasResp) ==
    LET protoErr == ~attrs.nil /\ attrs.isError
        noResp == ~protoErr /\ ~hasResp
    IN  Record(protocol, protoErr \/ noResp,
               IF protoErr THEN "ProtocolError"
               ELSE IF noResp THEN "NoResponse" ELSE "NoError",
               slow, attrs, req, resp, hasResp)

\* getRecords: a request labeled HttpContinue yields no record and is put
\* back (putBack); otherwise one record of the merged buffers, slow only
\* when there is a response
getRecords(mps, protocol, attrs) ==
    IF ~attrs.nil /\ attrs.cont
    THEN Result(TRUE, <<>>, TRUE)
    ELSE Result(TRUE,
                <<Classified(protocol, attrs,
                             mps.responses # <<>> /\ isSlow(getDuration(mps), protocol),
                             0, 0, mps.responses # <<>>)>>,
                FALSE)

\* getRecordWithSinglePair: one record of request req and response resp
\* of the messagePair with the duration
getRecordWithSinglePair(req, resp, duration, protocol, attrs) ==
    Classified(protocol, attrs, isSlow(duration, protocol), req, resp, resp # 0)

\* parseMultipleRequests going on to the next response when a response
\* does not parse or has no match
parseMultipleRequestsSkipping(mps, parser) ==
    LET reqs == mps.requests
        resps == mps.responses
        reqAttrs == [i \in 1 .. Len(reqs) |-> RequestAttrs(parser, <<reqs[i]>>)]
        respAttrs == [j \in 1 .. Len(resps) |->
                        ResponseAttrs(parser, [NoAttrs EXCEPT !.nil = FALSE],
                                      <<resps[j]>>)]
        match == [j \in 1 .. Len(resps) |-> dnsPair(reqAttrs, respAttrs[j])]
        IsPaired(j) == ParseResponse(parser, resps[j].data) /\ match[j] # 0
        paired == SelectSeq([j \in 1 .. Len(resps) |-> j], IsPaired)
        IsUnmatched(i) == \A k \in 1 .. Len(paired) : match[paired[k]] # i
        unmatched == SelectSeq([i \in 1 .. Len(reqs) |-> i], IsUnmatched)
    IN  IF \E i \in 1 .. Len(reqs) : ~ParseRequest(parser, reqs[i].data)
        THEN Nil
        ELSE Result(TRUE,
                    [k \in 1 .. Len(paired) |->
                       getRecordWithSinglePair(match[paired[k]], paired[k],
                                               getPairDuration(reqs[match[paired[k]]],
                                                               <<resps[paired[k]]>>),
                                               GetProtocol(parser),
                                               respAttrs[paired[k]])]
                    \o [k \in 1 .. Len(unmatched) |->
                          getRecordWithSinglePair(unmatched[k], 0,
                                                  getPairDuration(reqs[unmatched[k]], <<>>),
                                                  GetProtocol(parser),
                                                  reqAttrs[unmatched[k]])],
                    FALSE)

\* parseMultipleRequests: every request is parsed on its own; each
\* response, in order, is paired with the request PairMatch returns; a
\* request or response that does not parse, or a response without a
\* match, gives up on the whole state (nil); the requests no response was
\* paired with follow as no-response records
parseMultipleRequests(mps, parser) ==
    LET reqs == mps.requests
        resps == mps.responses
        reqAttrs == [i \in 1 .. Len(reqs) |-> RequestAttrs(parser, <<reqs[i]>>)]
        respAttrs == [j \in 1 .. Len(resps) |->
                        ResponseAttrs(parser, [NoAttrs EXCEPT !.nil = FALSE],
                                      <<resps[j]>>)]
        match == [j \in 1 .. Len(resps) |-> dnsPair(reqAttrs, respAttrs[j])]
        matched == {match[j] : j \in 1 .. Len(resps)}
        IsUnmatched(i) == i \notin matched
        unmatched == SelectSeq([i \in 1 .. Len(reqs) |-> i], IsUnmatched)
        noResp == [k \in 1 .. Len(unmatched) |->
                     getRecordWithSinglePair(unmatched[k], 0,
                                             getPairDuration(reqs[unmatched[k]], <<>>),
                                             GetProtocol(parser),
                                             reqAttrs[unmatched[k]])]
    IN  IF \E i \in 1 .. Len(reqs) : ~ParseRequest(parser, reqs[i].data)
        THEN Nil
        ELSE IF resps = <<>>
        THEN Result(TRUE,
                    [i \in 1 .. Len(reqs) |->
                       getRecordWithSinglePair(i, 0, getPairDuration(reqs[i], <<>>),
                                               GetProtocol(parser), reqAttrs[i])],
                    FALSE)
        ELSE IF \E j \in 1 .. Len(resps) :
                   ~ParseResponse(parser, resps[j].data) \/ match[j] = 0
        THEN Nil
        ELSE Result(TRUE,
                    [j \in 1 .. Len(resps) |->
                       getRecordWithSinglePair(match[j], j,
                                               getPairDuration(reqs[match[j]],
                                                               <<resps[j]>>),
                                               GetProtocol(parser),
                                               respAttrs[j])] \o noResp,
                    FALSE)

\* parseProtocol: a multi-request parser goes to parseMultipleRequests;
\* another parser parses the merged request buffer, then the merged
\* response buffer
parseProtocol(mps, parser) ==
    IF MultiRequests(parser) THEN parseMultipleRequests(mps, parser)
    ELSE IF ~ParseRequest(parser, mps.requests[1].data) THEN Nil
    ELSE LET attrs == RequestAttrs(parser, mps.requests)
         IN  IF mps.responses = <<>>
             THEN IF attrs.oneway THEN Result(TRUE, <<>>, FALSE)
                  ELSE getRecords(mps, GetProtocol(parser), attrs)
             ELSE IF ~ParseResponse(parser, mps.responses[1].data) THEN Nil
             ELSE getRecords(mps, GetProtocol(parser),
                             ResponseAttrs(parser, attrs, mps.responses))

\* ------------------------------------------------------- parseProtocols
\* ProtocolParser.AddPortCount: the parser's counter for the port, after
\* the increment
AddPortCount(count, parser, port) == count[parser][port] + 1

\* ParserFactory.AddCachedParser: a parser already in the list stays once
AddCachedParser(cache, port, parser) ==
    IF \E i \in 1 .. Len(cache[port]) : cache[port][i] = parser
    THEN cache
    ELSE [cache EXCEPT ![port] = Append(@, parser)]

\* ParserFactory.RemoveCachedParser
RemoveCachedParser(cache, port, parser) ==
    LET Other(q) == q # parser
    IN  [cache EXCEPT ![port] = SelectSeq(@, Other)]

\* The index of the first parser of the list that yields records, 0 when
\* none does: the loops of parseProtocols return at the first non-nil
RECURSIVE FirstOk(_, _, _)
FirstOk(list, mps, i) ==
    IF i > Len(list) THEN 0
    ELSE IF parseProtocol(mps, list[i]).ok THEN i
    ELSE FirstOk(list, mps, i + 1)

\* What parseProtocols returns and leaves behind: the records, the step
\* that produced them (via) with its parser, the counters and the cache
Parsed(result, via, parser, count, cache) ==
    [recs |-> result.recs, putBack |-> result.putBack,
     via |-> via, parser |-> parser, count |-> count, cache |-> cache]

\* Step 2 without the count of the NOSUPPORT parser's hits
CacheHitUncounted(mps, port, parser, count, cache) ==
    Parsed(parseProtocol(mps, parser), "cache", parser, count, cache)

\* Step 2 of parseProtocols: the cached parser that matched.  A hit of the
\* NOSUPPORT parser is counted; at CACHE_RESET_THRESHOLD its counter is
\* reset and it leaves the port's cache.
CacheHit(mps, port, parser, count, cache) ==
    IF GetProtocol(parser) = "NOSUPPORT"
    THEN LET n == AddPortCount(count, parser, port)
         IN  IF n = CACHE_RESET_THRESHOLD
             THEN Parsed(parseProtocol(mps, parser), "cache", parser,
                         [count EXCEPT ![parser][port] = 0],
                         RemoveCachedParser(cache, port, parser))
             ELSE Parsed(parseProtocol(mps, parser), "cache", parser,
                         [count EXCEPT ![parser][port] = n], cache)
    ELSE Parsed(parseProtocol(mps, parser), "cache", parser, count, cache)

\* Step 3 with the parser added one success after CACHE_ADD_THRESHOLD
ScanHitLate(mps, port, parser, count, cache) ==
    LET n == AddPortCount(count, parser, port)
    IN  Parsed(parseProtocol(mps, parser), "scan", parser,
               [count EXCEPT ![parser][port] = n],
               IF n = CACHE_ADD_THRESHOLD + 1
               THEN AddCachedParser(cache, port, parser) ELSE cache)

\* Step 3 of parseProtocols: the parser of na.parsers that matched is
\* counted and, at CACHE_ADD_THRESHOLD, added to the port's cache
ScanHit(mps, port, parser, count, cache) ==
    LET n == AddPortCount(count, parser, port)
    IN  Parsed(parseProtocol(mps, parser), "scan", parser,
               [count EXCEPT ![parser][port] = n],
               IF n = CACHE_ADD_THRESHOLD
               THEN AddCachedParser(cache, port, parser) ELSE cache)

\* Step 1 returning whatever the static protocol's parser returned
StaticHitNoFallback(mps, staticProtocol) ==
    IF mps.requests = <<>> THEN getConnectFailRecords(mps)
    ELSE IF staticProtocol \in protocolMap
         THEN parseProtocol(mps, staticProtocol)
         ELSE getRecords(mps, staticProtocol, NoAttrs)

\* Step 1 of parseProtocols: the port has a static protocol
StaticHit(mps, staticProtocol) ==
    IF mps.requests = <<>> THEN getConnectFailRecords(mps)
    ELSE IF staticProtocol \in protocolMap /\ parseProtocol(mps, staticProtocol).ok
         THEN parseProtocol(mps, staticProtocol)
         ELSE getRecords(mps, staticProtocol, NoAttrs)

\* parseProtocols with the scan of na.parsers ahead of the port's cache
parseProtocolsScanFirst(mps, count, cache) ==
    LET port == getPort(mps)
        hit == FirstOk(cache[port], mps, 1)
        scan == FirstOk(parsers, mps, 1)
    IN  IF staticPortMap(port) # ""
        THEN Parsed(StaticHit(mps, staticPortMap(port)), "static", "", count, cache)
        ELSE IF mps.requests = <<>>
        THEN Parsed(getConnectFailRecords(mps), "connect", "", count, cache)
        ELSE IF scan # 0
        THEN ScanHit(mps, port, parsers[scan], count, cache)
        ELSE IF hit # 0
        THEN CacheHit(mps, port, cache[port][hit], count, cache)
        ELSE Parsed(getRecords(mps, "NOSUPPORT", NoAttrs), "none", "", count, cache)

\* parseProtocols(mps) with the counters and the cache it leaves
parseProtocols(mps, count, cache) ==
    LET port == getPort(mps)
        hit == FirstOk(cache[port], mps, 1)
        scan == FirstOk(parsers, mps, 1)
    IN  IF staticPortMap(port) # ""
        THEN Parsed(StaticHit(mps, staticPortMap(port)), "static", "", count, cache)
        ELSE IF mps.requests = <<>>
        THEN Parsed(getConnectFailRecords(mps), "connect", "", count, cache)
        ELSE IF hit # 0
        THEN CacheHit(mps, port, cache[port][hit], count, cache)
        ELSE IF scan # 0
        THEN ScanHit(mps, port, parsers[scan], count, cache)
        ELSE Parsed(getRecords(mps, "NOSUPPORT", NoAttrs), "none", "", count, cache)

\* ----------------------------------------------------------- the state
\* cfg.ProtocolConfigs has an entry for these protocols
Configured == {"http", "dns", "mysql"}

\* The slow thresholds, in milliseconds: the global response_slow_threshold
\* and, by protocol, the Threshold of cfg.ProtocolConfigs that Start copies
\* into na.slowThresholdMap (0: not set)
SlowThresholds(global, byProtocol) ==
    [responseSlowThreshold : global, slowThresholdMap : byProtocol]

WithSlow(c, s) ==
    [connectTimeout |-> c.connectTimeout, fdReuseTimeout |-> c.fdReuseTimeout,
     noResponseThreshold |-> c.noResponseThreshold,
     responseSlowThreshold |-> s.responseSlowThreshold,
     slowThresholdMap |-> s.slowThresholdMap]

Timeouts ==
    [connectTimeout : 0 .. MaxConnectTimeout,
     fdReuseTimeout : 1 .. MaxFdReuseTimeout,
     noResponseThreshold : 1 .. MaxNoResponse]

\* The configurations with the default response_slow_threshold of 500 ms
\* and no threshold of a protocol set
Configs ==
    {WithSlow(c, s) :
        c \in Timeouts,
        s \in SlowThresholds({500}, {[p \in Configured |-> 0]})}

cacheVars == <<portCount, cachedParsers, sentinelHits>>
udpVars == <<dnsRequestMonitor, dnsCaches, dnsCache, dnsKey, udpReq, dnsTodo, udpRecords,
             udpMissed>>
tcpVars == <<requestMonitor, heap, tcpMessagePairSize, old, newPairs, todo>>
lifeVars == <<dnsKeys, eventChan, stopChan, logged, returned>>

\* No UDP-DNS event has been seen
InitUdp ==
    /\ dnsRequestMonitor = [k \in Keys |-> 0]
    /\ dnsCaches = <<>>
    /\ dnsCache = [t \in Threads |-> 0]
    /\ dnsKey = 0
    /\ udpReq = <<>>
    /\ dnsTodo = {}
    /\ udpRecords = <<>>
    /\ udpMissed = {}

\* NewNetworkAnalyzer lines 73-74: both channels are made, nothing sent
InitChannels ==
    /\ dnsKeys = {}
    /\ eventChan = <<>>
    /\ stopChan = "open"
    /\ logged = 0
    /\ returned = <<>>

InitShared ==
    /\ now = 1
    /\ cfg \in Configs
    /\ requestMonitor = [k \in Keys |-> 0]
    /\ heap = <<>>
    /\ tcpMessagePairSize = 0
    /\ pc = [t \in Threads |-> IF t = "router" THEN "idle" ELSE "range"]
    /\ old = [t \in Threads |-> 0]
    /\ newPairs = <<>>
    /\ evt = <<>>
    /\ todo = {}
    /\ nEvents = 0
    /\ portCount = [p \in Parsers |-> [q \in Ports |-> 0]]
    /\ cachedParsers = [q \in Ports |-> <<>>]
    /\ sentinelHits = [q \in Ports |-> 0]
    /\ InitUdp
    /\ InitChannels

Init == InitShared


\* The clock.  Event timestamps and time.Now() read the same clock.
Tick ==
    /\ now < MaxTick
    /\ now' = now + 1
    /\ UNCHANGED <<cfg, requestMonitor, heap, tcpMessagePairSize, pc, old,
                   newPairs, evt, todo, nEvents, cacheVars, udpVars, lifeVars>>

\* The router goes on to step p of the handler of event e
Goto(t, p) == pc' = [pc EXCEPT ![t] = p]

\* The end of a handler (router) or of one Range callback (sweeper)
Return(t) ==
    IF t = "router"
    THEN /\ pc' = [pc EXCEPT ![t] = "idle"]
         /\ old' = [old EXCEPT ![t] = 0]
         /\ newPairs' = <<>>
         /\ evt' = <<>>
    ELSE /\ pc' = [pc EXCEPT ![t] = "range"]
         /\ old' = [old EXCEPT ![t] = 0]
         /\ UNCHANGED <<newPairs, evt>>

\* requestMonitor.Store(mps.getKey(), mps) of a messagePairs not yet in
\* the heap: it gets the next object id
StoreNew(mps) ==
    /\ heap' = Append(heap, mps)
    /\ requestMonitor' = [requestMonitor EXCEPT ![mps.key] = Len(heap) + 1]

\* ConsumeEventFromChannel receives a connect event; processEvent hands
\* it to analyseConnect, whose LoadOrStore stores the new messagePairs or
\* finds the old one
analyseConnect(e) ==
    LET mps == NewPairs(<<e>>, <<>>, e)
    IN  IF requestMonitor[e.key] = 0
        THEN /\ StoreNew(mps)
             /\ Goto("router", "size")
             /\ UNCHANGED <<old, newPairs, evt>>
        ELSE /\ old' = [old EXCEPT !["router"] = requestMonitor[e.key]]
             /\ newPairs' = <<mps>>
             /\ evt' = <<e>>
             /\ Goto("router", "connect_old")
             /\ UNCHANGED <<heap, requestMonitor>>

\* The router receives a connect event of the clock's time
AnalyseConnect ==
    /\ pc["router"] = "idle"
    /\ nEvents < MaxEvents
    /\ \E k \in Keys : analyseConnect(Event("connect", k, 1, DynPort, now, RawData))
    /\ nEvents' = nEvents + 1
    /\ UNCHANGED <<now, cfg, tcpMessagePairSize, todo, cacheVars, udpVars, lifeVars>>

\* recordMessagePairSize(evt, 1) after a first-time insertion
RecordSize ==
    /\ pc["router"] = "size"
    /\ tcpMessagePairSize' = tcpMessagePairSize + 1
    /\ Return("router")
    /\ UNCHANGED <<now, cfg, requestMonitor, heap, todo, nEvents,
                   cacheVars, udpVars, lifeVars>>

\* analyseConnect, the old pair found: connects only and not timed out,
\* the connect is merged; otherwise the old pair is distributed
ConnectOld ==
    /\ pc["router"] = "connect_old"
    /\ LET o == heap[old["router"]]
           e == evt[1]
       IN  IF /\ o.requests = <<>>
              /\ o.connects # <<>>
              /\ ~IsTimeout(o.connects, e, cfg.connectTimeout)
           THEN /\ heap' = [heap EXCEPT ![old["router"]].connects = Append(@, e)]
                /\ Return("router")
           ELSE /\ Goto("router", "check_send")
                /\ UNCHANGED <<heap, old, newPairs, evt>>
    /\ UNCHANGED <<now, cfg, requestMonitor, tcpMessagePairSize, todo, nEvents, cacheVars, udpVars, lifeVars>>

\* ConsumeEventFromChannel receives a request event (is_request() true);
\* analyseRequest's LoadOrStore stores the new messagePairs or finds the
\* old one
analyseRequest(e) ==
    LET mps == NewPairs(<<>>, <<e>>, e)
    IN  IF requestMonitor[e.key] = 0
        THEN /\ StoreNew(mps)
             /\ Goto("router", "size")
             /\ UNCHANGED <<old, newPairs, evt>>
        ELSE /\ old' = [old EXCEPT !["router"] = requestMonitor[e.key]]
             /\ newPairs' = <<mps>>
             /\ evt' = <<e>>
             /\ Goto("router", "request_old")
             /\ UNCHANGED <<heap, requestMonitor>>

\* The router receives a request event of the clock's time
AnalyseRequest ==
    /\ pc["router"] = "idle"
    /\ nEvents < MaxEvents
    /\ \E k \in Keys, sp \in Sports, c \in BOOLEAN :
         analyseRequest(Event("request", k, sp, DynPort, now, HttpData(c)))
    /\ nEvents' = nEvents + 1
    /\ UNCHANGED <<now, cfg, tcpMessagePairSize, todo, cacheVars, udpVars, lifeVars>>

\* analyseRequest, the old pair found (lines 397-414)
RequestOld ==
    /\ pc["router"] = "request_old"
    /\ LET id == old["router"]
           o == heap[id]
           e == evt[1]
       IN  IF o.requests = <<>>
           THEN IF o.connects = <<>>
                THEN \* empty message pair, store new one
                     /\ StoreNew(newPairs[1])
                     /\ Return("router")
                ELSE \* there is a connect event: mergeRequest, then Store
                     /\ heap' = [heap EXCEPT ![id].requests = Append(@, e)]
                     /\ Goto("router", "store_old")
                     /\ UNCHANGED <<requestMonitor, old, newPairs, evt>>
           ELSE IF o.responses # <<>> \/ IsSportChanged(o.requests, e)
                THEN /\ Goto("router", "check_send")
                     /\ UNCHANGED <<heap, requestMonitor, old, newPairs, evt>>
                ELSE /\ heap' = [heap EXCEPT ![id].requests = Append(@, e)]
                     /\ Return("router")
                     /\ UNCHANGED requestMonitor
    /\ UNCHANGED <<now, cfg, tcpMessagePairSize, todo, nEvents,
                   cacheVars, udpVars, lifeVars>>

\* requestMonitor.Store(oldPairs.getKey(), oldPairs) after a merge
\* (analyseRequest line 405, analyseResponse line 433)
StoreOld ==
    /\ pc["router"] = "store_old"
    /\ requestMonitor' =
           [requestMonitor EXCEPT ![heap[old["router"]].key] = old["router"]]
    /\ Return("router")
    /\ UNCHANGED <<now, cfg, heap, tcpMessagePairSize, todo, nEvents,
                   cacheVars, udpVars, lifeVars>>

\* ConsumeEventFromChannel receives a response event; analyseResponse
\* loads the pair of its key and drops the event when there is none
analyseResponse(e) ==
    IF requestMonitor[e.key] = 0
    THEN UNCHANGED <<pc, old, evt>>
    ELSE /\ old' = [old EXCEPT !["router"] = requestMonitor[e.key]]
         /\ evt' = <<e>>
         /\ Goto("router", "response_old")

\* The router receives a response event of the clock's time
AnalyseResponse ==
    /\ pc["router"] = "idle"
    /\ nEvents < MaxEvents
    /\ \E k \in Keys :
         analyseResponse(Event("response", k, 1, DynPort, now, HttpData(FALSE)))
    /\ nEvents' = nEvents + 1
    /\ UNCHANGED <<now, cfg, requestMonitor, heap, tcpMessagePairSize,
                   newPairs, todo, cacheVars, udpVars, lifeVars>>

\* analyseResponse without the test of oldPairs.requests (lines 427-430)
ResponseOldUnchecked ==
    /\ pc["router"] = "response_old"
    /\ heap' = [heap EXCEPT ![old["router"]].responses = Append(@, evt[1])]
    /\ Goto("router", "store_old")
    /\ UNCHANGED <<old, newPairs, evt>>
    /\ UNCHANGED <<now, cfg, requestMonitor, tcpMessagePairSize, todo, nEvents, cacheVars, udpVars, lifeVars>>

\* analyseResponse going on to distributeTraceMetric after mergeResponse
\* instead of storing the pair (line 433)
ResponseOldFlushes ==
    /\ pc["router"] = "response_old"
    /\ LET id == old["router"]
       IN  IF heap[id].requests = <<>>
           THEN /\ Return("router")
                /\ UNCHANGED heap
           ELSE /\ heap' = [heap EXCEPT ![id].responses = Append(@, evt[1])]
                /\ Goto("router", "check_send")
                /\ UNCHANGED <<old, newPairs, evt>>
    /\ UNCHANGED <<now, cfg, requestMonitor, tcpMessagePairSize, todo, nEvents, cacheVars, udpVars, lifeVars>>

\* analyseResponse, the pair found: without requests the event is dropped,
\* otherwise mergeResponse
ResponseOld ==
    /\ pc["router"] = "response_old"
    /\ LET id == old["router"]
       IN  IF heap[id].requests = <<>>
           THEN /\ Return("router")
                /\ UNCHANGED heap
           ELSE /\ heap' = [heap EXCEPT ![id].responses = Append(@, evt[1])]
                /\ Goto("router", "store_old")
                /\ UNCHANGED <<old, newPairs, evt>>
    /\ UNCHANGED <<now, cfg, requestMonitor, tcpMessagePairSize, todo, nEvents, cacheVars, udpVars, lifeVars>>

\* ------------------------------------------------ distributeTraceMetric
\* messagePairs.checkSend: the single-shot latch, atomic.AddInt32 == 1
checkSend(mps) == mps.isSend + 1 = 1

\* distributeTraceMetric without the checkSend test of lines 447-450
PassesLatchUnchecked(mps) == mps.connects # <<>> \/ mps.requests # <<>>

\* distributeTraceMetric lines 438-450: a pair without connects and
\* requests is skipped; one that already passed checkSend is skipped
PassesLatch(mps) ==
    /\ mps.connects # <<>> \/ mps.requests # <<>>
    /\ checkSend(mps)

CheckSend(t) ==
    /\ pc[t] = "check_send"
    /\ LET id == old[t]
           o == heap[id]
       IN  IF o.connects = <<>> /\ o.requests = <<>>
           THEN /\ Return(t)
                /\ UNCHANGED heap
           ELSE /\ heap' = [heap EXCEPT ![id].isSend = IF @ = 0 THEN 1 ELSE 2]
                /\ IF PassesLatch(o)
                   THEN /\ Goto(t, "replace")
                        /\ UNCHANGED <<old, newPairs, evt>>
                   ELSE Return(t)
    /\ UNCHANGED <<now, cfg, requestMonitor, tcpMessagePairSize, todo, nEvents, cacheVars, udpVars, lifeVars>>

\* distributeTraceMetric with recordMessagePairSize(queryEvt, -1) outside
\* the else branch of lines 452-457
ReplaceAndCount(t) ==
    /\ pc[t] = "replace"
    /\ tcpMessagePairSize' = tcpMessagePairSize - 1
    /\ IF t = "router" /\ newPairs # <<>>
       THEN /\ StoreNew(newPairs[1])
            /\ Goto(t, "parse")
       ELSE /\ Goto(t, "delete")
            /\ UNCHANGED <<heap, requestMonitor>>
    /\ UNCHANGED <<now, cfg, old, newPairs, evt, todo, nEvents,
                   cacheVars, udpVars, lifeVars>>

\* distributeTraceMetric lines 452-455: the new pair replaces the old one
\* under its key, or, without a new pair, the flow-size counter goes down
Replace(t) ==
    /\ pc[t] = "replace"
    /\ IF t = "router" /\ newPairs # <<>>
       THEN /\ StoreNew(newPairs[1])
            /\ Goto(t, "parse")
            /\ UNCHANGED tcpMessagePairSize
       ELSE /\ tcpMessagePairSize' = tcpMessagePairSize - 1
            /\ Goto(t, "delete")
            /\ UNCHANGED <<heap, requestMonitor>>
    /\ UNCHANGED <<now, cfg, old, newPairs, evt, todo, nEvents,
                   cacheVars, udpVars, lifeVars>>

\* distributeTraceMetric line 456: requestMonitor.Delete(oldPairs.getKey())
Delete(t) ==
    /\ pc[t] = "delete"
    /\ requestMonitor' = [requestMonitor EXCEPT ![heap[old[t]].key] = 0]
    /\ Goto(t, "parse")
    /\ UNCHANGED <<now, cfg, heap, tcpMessagePairSize, old, newPairs, evt,
                   todo, nEvents, cacheVars, udpVars, lifeVars>>

\* A record as distributeRecords hands it on, with the goroutine that
\* emitted it
Emitted(r, t) ==
    [protocol |-> r.protocol, isError |-> r.isError, errorType |-> r.errorType,
     isSlow |-> r.isSlow, attrs |-> r.attrs, req |-> r.req, resp |-> r.resp,
     hasResp |-> r.hasResp, by |-> t]

\* The NOSUPPORT parser is in the port's cache
SentinelCached(cache, port) ==
    \E i \in 1 .. Len(cache[port]) : GetProtocol(cache[port][i]) = "NOSUPPORT"

\* sentinelHits after a run r of parseProtocols on a pair of the port: a
\* hit of the NOSUPPORT parser through the cache is counted while the
\* parser stays in the cache, and the count is 0 while it is not there
SentinelHitsAfter(port, r) ==
    [sentinelHits EXCEPT ![port] =
        IF ~SentinelCached(r.cache, port) THEN 0
        ELSE IF r.via = "cache" /\ GetProtocol(r.parser) = "NOSUPPORT"
        THEN @ + 1 ELSE @]

\* distributeTraceMetric lines 476-477: parseProtocols(oldPairs), with
\* getRecords' putRequestBack into the pair now stored under the key, and
\* distributeRecords
Parse(t) ==
    /\ pc[t] = "parse"
    /\ \E r \in {parseProtocols(heap[old[t]], portCount, cachedParsers)} :
       LET id == old[t]
           o == heap[id]
           cur == IF r.putBack THEN requestMonitor[o.requests[1].key] ELSE 0
           emits == [i \in 1 .. Len(r.recs) |-> Emitted(r.recs[i], t)]
       IN  /\ heap' = LET ran == [heap EXCEPT ![id].parsed = @ + 1,
                                              ![id].out = @ \o emits]
                      IN  IF cur # 0
                          THEN [ran EXCEPT ![cur] = putRequestBack(@, o.requests)]
                          ELSE ran
           /\ portCount' = r.count
           /\ cachedParsers' = r.cache
           /\ sentinelHits' = SentinelHitsAfter(getPort(o), r)
    /\ Return(t)
    /\ UNCHANGED <<now, cfg, requestMonitor, tcpMessagePairSize, todo, nEvents,
                   udpVars, lifeVars>>

\* ------------------------------------------- consumerFdNoReusingTrace
\* The Range callback with > for >= in the no-response test of line 314
TimedOutLate(mps, clock) ==
    LET timeoutTs == getTimeoutTs(mps)
        duration == Sec(clock) - Sec(timeoutTs)
    IN  /\ timeoutTs # 0
        /\ \/ mps.responses # <<>> /\ duration >= cfg.fdReuseTimeout
           \/ duration > cfg.noResponseThreshold

\* lines 308-317: whether the Range callback distributes the pair
TimedOut(mps, clock) ==
    LET timeoutTs == getTimeoutTs(mps)
        duration == Sec(clock) - Sec(timeoutTs)
    IN  /\ timeoutTs # 0
        /\ \/ mps.responses # <<>> /\ duration >= cfg.fdReuseTimeout
           \/ duration >= cfg.noResponseThreshold

\* The Range callback on one key of the map.  With no key left to visit
\* the sweeper waits for the ticker, and the next visit is the first of a
\* new Range.
RangeVisit ==
    /\ pc["sweeper"] = "range"
    /\ \E k \in (IF todo = {} THEN Keys ELSE todo) :
         /\ todo' = (IF todo = {} THEN Keys ELSE todo) \ {k}
         /\ IF requestMonitor[k] # 0 /\ TimedOut(heap[requestMonitor[k]], now)
            THEN /\ old' = [old EXCEPT !["sweeper"] = requestMonitor[k]]
                 /\ Goto("sweeper", "check_send")
            ELSE UNCHANGED <<pc, old>>
    /\ UNCHANGED <<now, cfg, requestMonitor, heap, tcpMessagePairSize,
                   newPairs, evt, nEvents, cacheVars, udpVars, lifeVars>>

\* -------------------------------------------------- the specification
Router ==
    \/ AnalyseConnect
    \/ AnalyseRequest
    \/ AnalyseResponse
    \/ RecordSize
    \/ ConnectOld
    \/ RequestOld
    \/ StoreOld
    \/ ResponseOld

Sweeper == RangeVisit

Distribute ==
    \E t \in Threads : CheckSend(t) \/ Replace(t) \/ Delete(t) \/ Parse(t)

Next == Tick \/ Router \/ Sweeper \/ Distribute

Spec == Init /\ [][Next]_vars

\* ------------------------------------------ the specification, scheduled
\* The goroutines keep running: the clock advances, the sweeper's ticker
\* keeps firing and its Range callbacks run to their end, and the router
\* finishes the handler of an event it has received.  No event is bound
\* to arrive.  It starts after a first event that left nothing behind (a
\* response on a key without a pair), with every timeout at one second.
InitFair ==
    /\ now = 1
    /\ cfg \in {c \in Configs : c.connectTimeout = 1 /\ c.fdReuseTimeout = 1
                                /\ c.noResponseThreshold = 1}
    /\ requestMonitor = [k \in Keys |-> 0]
    /\ heap = <<>>
    /\ tcpMessagePairSize = 0
    /\ pc = [t \in Threads |-> IF t = "router" THEN "idle" ELSE "range"]
    /\ old = [t \in Threads |-> 0]
    /\ newPairs = <<>>
    /\ evt = <<>>
    /\ todo = {}
    /\ nEvents = 1
    /\ portCount = [p \in Parsers |-> [q \in Ports |-> 0]]
    /\ cachedParsers = [q \in Ports |-> <<>>]
    /\ sentinelHits = [q \in Ports |-> 0]
    /\ InitUdp
    /\ InitChannels

SweeperRuns ==
    \/ RangeVisit
    \/ CheckSend("sweeper")
    \/ Replace("sweeper")
    \/ Delete("sweeper")
    \/ Parse("sweeper")

RouterFinishes ==
    \/ RecordSize
    \/ ConnectOld
    \/ RequestOld
    \/ StoreOld
    \/ ResponseOld
    \/ CheckSend("router")
    \/ Replace("router")
    \/ Delete("router")
    \/ Parse("router")

SpecFair ==
    /\ InitFair
    /\ [][Next]_vars
    /\ WF_vars(Tick)
    /\ WF_vars(SweeperRuns)
    /\ WF_vars(RouterFinishes)

\* ------------------------------------- parseMultipleRequests on its own
\* A DNS-over-TCP pair that distributeTraceMetric has taken out of the
\* map is handed to the DNS parser once.  The pair is drawn from the
\* request and response sequences within the bounds.
SeqsOf(S, lo, hi) == UNION {[1 .. n -> S] : n \in lo .. hi}

DnsRequests ==
    {Event("request", 1, 1, DnsPort, Sub, DnsData(i, d, 0)) :
        i \in 1 .. MaxDnsId, d \in 1 .. MaxDomain}

DnsResponses ==
    {Event("response", 1, 1, DnsPort, Sub, DnsData(i, d, rc)) :
        i \in 1 .. MaxDnsId, d \in 1 .. MaxDomain, rc \in 0 .. MaxRcode}

InitPM ==
    /\ now = 1
    /\ cfg \in {c \in Configs : c.connectTimeout = 0 /\ c.fdReuseTimeout = 1
                                /\ c.noResponseThreshold = 1}
    /\ requestMonitor = [k \in Keys |-> 0]
    /\ \E reqs \in SeqsOf(DnsRequests, 1, MaxRequests),
          resps \in SeqsOf(DnsResponses, 0, MaxResponses) :
         heap = <<[NewPairs(<<>>, reqs, reqs[1]) EXCEPT !.responses = resps,
                                                       !.isSend = 1]>>
    /\ tcpMessagePairSize = 0
    /\ pc = [t \in Threads |-> IF t = "router" THEN "multi" ELSE "range"]
    /\ old = [t \in Threads |-> IF t = "router" THEN 1 ELSE 0]
    /\ newPairs = <<>>
    /\ evt = <<>>
    /\ todo = {}
    /\ nEvents = 0
    /\ portCount = [p \in Parsers |-> [q \in Ports |-> 0]]
    /\ cachedParsers = [q \in Ports |-> <<>>]
    /\ sentinelHits = [q \in Ports |-> 0]
    /\ InitUdp
    /\ InitChannels

\* parseProtocol with the DNS parser: parseMultipleRequests(mps, parser)
\* and the records it returns (none when it returns nil)
ParseMultiple ==
    /\ pc["router"] = "multi"
    /\ LET id == old["router"]
           r == parseProtocol(heap[id], "dns")
       IN  heap' = [heap EXCEPT
                      ![id].parsed = @ + 1,
                      ![id].out = [i \in 1 .. Len(r.recs) |->
                                      Emitted(r.recs[i], "router")]]
    /\ Return("router")
    /\ UNCHANGED <<now, cfg, requestMonitor, tcpMessagePairSize, todo, nEvents,
                   cacheVars, udpVars, lifeVars>>

NextPM == ParseMultiple

SpecPM == InitPM /\ [][NextPM]_vars

\* ------------------------------------------- the parser cache of a port
\* The pairs of a port without static protocol, parsed one after the
\* other: each is a timed-out pair holding one request, which the sweeper
\* has latched and taken out of the map.
Payloads == {RawData, HttpData(FALSE)}

InitCache ==
    /\ now = 1
    /\ cfg \in {c \in Configs : c.connectTimeout = 0 /\ c.fdReuseTimeout = 1
                                /\ c.noResponseThreshold = 1}
    /\ requestMonitor = [k \in Keys |-> 0]
    /\ heap = <<>>
    /\ tcpMessagePairSize = 0
    /\ pc = [t \in Threads |-> IF t = "router" THEN "idle" ELSE "range"]
    /\ old = [t \in Threads |-> 0]
    /\ newPairs = <<>>
    /\ evt = <<>>
    /\ todo = {}
    /\ nEvents = 0
    /\ portCount = [p \in Parsers |-> [q \in Ports |-> 0]]
    /\ cachedParsers = [q \in Ports |-> <<>>]
    /\ sentinelHits = [q \in Ports |-> 0]
    /\ InitUdp
    /\ InitChannels

\* distributeTraceMetric lines 438-457 on a timed-out pair of DynPort: the
\* pair is latched and out of the map when parseProtocols gets it
Latched ==
    /\ pc["sweeper"] = "range"
    /\ \E d \in Payloads :
         LET e == Event("request", 1, 1, DynPort, now, d)
         IN  heap' = <<[NewPairs(<<>>, <<e>>, e) EXCEPT !.isSend = 1]>>
    /\ old' = [old EXCEPT !["sweeper"] = 1]
    /\ Goto("sweeper", "parse")
    /\ UNCHANGED <<now, cfg, requestMonitor, tcpMessagePairSize, newPairs, evt,
                   todo, nEvents, cacheVars, udpVars, lifeVars>>

NextCache == Latched \/ Parse("sweeper")

SpecCache == InitCache /\ [][NextCache]_vars

\* ------------------------------------------------ one state, parsed
\* The parser lists a port without static protocol can have: a parser
\* enters the list at its CACHE_ADD_THRESHOLD-th hit of the scan, and none
\* enters behind the generic parser, which accepts every state.
CacheLists ==
    {<<>>, <<"http">>, <<"dns">>, <<"generic">>, <<"http", "dns">>,
     <<"dns", "http">>, <<"http", "generic">>, <<"dns", "generic">>,
     <<"http", "dns", "generic">>, <<"dns", "http", "generic">>}

InList(list, parser) == \E i \in 1 .. Len(list) : list[i] = parser

\* Start, and the counters and the cache of DynPort after earlier states
\* of the port: a cached parser has reached CACHE_ADD_THRESHOLD, the
\* generic one has not reached CACHE_RESET_THRESHOLD, another parser is
\* below CACHE_ADD_THRESHOLD
InitParse ==
    /\ now = 1
    /\ cfg \in {c \in Configs : c.connectTimeout = 0 /\ c.fdReuseTimeout = 1
                                /\ c.noResponseThreshold = 1}
    /\ requestMonitor = [k \in Keys |-> 0]
    /\ heap = <<>>
    /\ tcpMessagePairSize = 0
    /\ pc = [t \in Threads |-> IF t = "router" THEN "idle" ELSE "range"]
    /\ old = [t \in Threads |-> 0]
    /\ newPairs = <<>>
    /\ evt = <<>>
    /\ todo = {}
    /\ nEvents = 0
    /\ \E list \in CacheLists, n \in {0, CACHE_ADD_THRESHOLD - 1},
          g \in {CACHE_ADD_THRESHOLD, CACHE_RESET_THRESHOLD - 1} :
         /\ cachedParsers = [q \in Ports |-> IF q = DynPort THEN list ELSE <<>>]
         /\ portCount =
              [p \in Parsers |->
                 [q \in Ports |->
                    IF q # DynPort THEN 0
                    ELSE IF ~InList(list, p) THEN n
                    ELSE IF p = "generic" THEN g ELSE CACHE_ADD_THRESHOLD]]
         /\ sentinelHits =
              [q \in Ports |->
                 IF q = DynPort /\ InList(list, "generic")
                 THEN g - CACHE_ADD_THRESHOLD ELSE 0]
    /\ InitUdp
    /\ InitChannels

\* The buffers of up to two events of a kind on a port
Buffers(kind, port, payloads) ==
    LET E == {Event(kind, 1, 1, port, now, d) : d \in payloads}
    IN  {<<>>} \cup {<<e>> : e \in E} \cup {<<e, f>> : e \in E, f \in E}

RequestPayloads ==
    {RawData, HttpData(FALSE), HttpData(TRUE), DnsData(1, 1, 0), DnsData(2, 1, 0)}
ResponsePayloads ==
    {RawData, HttpData(FALSE), DnsData(1, 1, 0), DnsData(1, 1, 1), DnsData(2, 1, 0)}

\* The states distributeTraceMetric hands to parseProtocols: connects
\* only, or requests with or without connects and responses
FlushedStates ==
    UNION {{[key |-> 1, connects |-> c, requests |-> r, responses |-> s,
             isSend |-> 1, parsed |-> 0, out |-> <<>>] :
               c \in {<<>>, <<Event("connect", 1, 1, port, now, RawData)>>},
               r \in Buffers("request", port, RequestPayloads),
               s \in Buffers("response", port, ResponsePayloads)} :
           port \in Ports}

\* distributeTraceMetric lines 438-457 on one state of the set: the state
\* is latched and out of the map when parseProtocols gets it
Flush(states) ==
    /\ pc["sweeper"] = "range"
    /\ heap = <<>>
    /\ \E mps \in states :
         /\ mps.connects # <<>> \/ mps.requests # <<>>
         /\ mps.responses # <<>> => mps.requests # <<>>
         /\ heap' = <<mps>>
    /\ old' = [old EXCEPT !["sweeper"] = 1]
    /\ Goto("sweeper", "parse")
    /\ UNCHANGED <<now, cfg, requestMonitor, tcpMessagePairSize, newPairs, evt,
                   todo, nEvents, cacheVars, udpVars, lifeVars>>

NextParse == Flush(FlushedStates) \/ Parse("sweeper")

SpecParse == InitParse /\ [][NextParse]_vars

\* ------------------------------------- one state, parsed: its duration
\* The slow thresholds a configuration can set: a global threshold of 0,
\* 500 or 1000 ms and, for each configured protocol, none or 1000 ms
SlowConfigs ==
    {WithSlow(c, s) :
        c \in {t \in Timeouts : t.connectTimeout = 0 /\ t.fdReuseTimeout = 1
                                 /\ t.noResponseThreshold = 1},
        s \in SlowThresholds({0, 500, 1000}, [Configured -> {0, 1000}])}

InitSlow ==
    /\ now = MaxTick
    /\ cfg \in SlowConfigs
    /\ requestMonitor = [k \in Keys |-> 0]
    /\ heap = <<>>
    /\ tcpMessagePairSize = 0
    /\ pc = [t \in Threads |-> IF t = "router" THEN "idle" ELSE "range"]
    /\ old = [t \in Threads |-> 0]
    /\ newPairs = <<>>
    /\ evt = <<>>
    /\ todo = {}
    /\ nEvents = 0
    /\ portCount = [p \in Parsers |-> [q \in Ports |-> 0]]
    /\ cachedParsers = [q \in Ports |-> <<>>]
    /\ sentinelHits = [q \in Ports |-> 0]
    /\ InitUdp
    /\ InitChannels

\* The states of one or two requests and at most one response of a
\* protocol, with the ticks at which the events were read
TimedStates ==
    UNION {LET req(t) == Event("request", 1, 1, port, t, d)
               resp(t) == Event("response", 1, 1, port, t, d)
           IN  {[key |-> 1, connects |-> <<>>, requests |-> r, responses |-> s,
                 isSend |-> 1, parsed |-> 0, out |-> <<>>] :
                   r \in {<<req(t1)>>, <<req(t1), req(t2)>>},
                   s \in {<<>>, <<resp(t3)>>}} :
              port \in Ports, d \in {HttpData(FALSE), DnsData(1, 1, 0)},
              t1 \in 1 .. MaxTick, t2 \in 1 .. MaxTick, t3 \in 1 .. MaxTick}

NextSlow == Flush({mps \in TimedStates :
                      /\ mps.requests[1].ts <= Last(mps.requests).ts
                      /\ mps.responses # <<>> =>
                            Last(mps.requests).ts <= mps.responses[1].ts})
                \/ Parse("sweeper")

SpecSlow == InitSlow /\ [][NextSlow]_vars

\* ------------------------------------- one DNS response, its answers
\* The answer records: two A records, an AAAA record and a CNAME record
\* whose rdata is a compression pointer
AnswerRecords ==
    {[type |-> TypeA, rdata |-> <<1, 2, 3, 4>>],
     [type |-> TypeA, rdata |-> <<5, 6, 7, 8>>],
     [type |-> TypeAAAA, rdata |-> [i \in 1 .. 16 |-> 0]],
     [type |-> 5, rdata |-> <<192, 12>>]}

RECURSIVE SeqsUpTo(_, _)
SeqsUpTo(S, n) ==
    IF n = 0 THEN {<<>>}
    ELSE SeqsUpTo(S, n - 1) \cup
         {Append(s, x) : s \in SeqsUpTo(S, n - 1), x \in S}

\* The states of the dns port with one request and its response, whose
\* answer section holds up to MaxAnswers records
AnsweredStates ==
    {[key |-> 1, connects |-> <<>>,
      requests |-> <<Event("request", 1, 1, DnsPort, now, DnsData(1, 1, 0))>>,
      responses |-> <<Event("response", 1, 1, DnsPort, now,
                            [DnsData(1, 1, 0) EXCEPT !.answers = a])>>,
      isSend |-> 1, parsed |-> 0, out |-> <<>>] :
        a \in SeqsUpTo(AnswerRecords, MaxAnswers)}

NextDns == Flush(AnsweredStates) \/ Parse("sweeper")

SpecDns == InitCache /\ [][NextDns]_vars

\* ------------------------------------------------------- DNS over UDP
\* A DnsUdpCache maps a DnsId to its pending udpRequest (<<>>: none).  A
\* udpRequest holds the request event and its parsed attributes; seq
\* numbers the request events in their order of arrival.
DnsIds == 1 .. MaxDnsId
Domains == 1 .. MaxDomain

newDnsUdpCache == [i \in DnsIds |-> <<>>]

\* parseDnsUdpRequest, on success
UdpRequestOf(e, seq) ==
    [event |-> e, attrs |-> RequestAttrs("dns", <<e>>), seq |-> seq]

\* parseDnsUdpResponse, on success
UdpResponseAttrs(e) ==
    ResponseAttrs("dns", [NoAttrs EXCEPT !.nil = FALSE], <<e>>)

\* DnsUdpCache.addRequest
addRequest(cache, req) == [cache EXCEPT ![req.attrs.id] = <<req>>]

\* DnsUdpCache.deleteRequest
deleteRequest(cache, id) == [cache EXCEPT ![id] = <<>>]

\* DnsUdpCache.isEmpty
isEmpty(cache) == \A i \in DnsIds : cache[i] = <<>>

\* The pending request of the cache with the response's DnsId and domain
Matches(cache, respAttrs) ==
    /\ cache[respAttrs.id] # <<>>
    /\ cache[respAttrs.id][1].attrs.dom = respAttrs.dom

\* DnsUdpCache.getMatchRequest: the matching request is taken out of the
\* cache; size is the number of requests left
getMatchRequest(cache, respAttrs) ==
    LET left == IF Matches(cache, respAttrs)
                THEN deleteRequest(cache, respAttrs.id) ELSE cache
    IN  [request |-> IF Matches(cache, respAttrs) THEN cache[respAttrs.id] ELSE <<>>,
         cache |-> left,
         size |-> Cardinality({i \in DnsIds : left[i] # <<>>})]

\* A record of the UDP-DNS paths: the request it reports (seq), the labels
\* of getRecordWithSinglePair and the goroutine that distributed it
UdpRecord(req, attrs, response, t) ==
    [seq |-> req.seq,
     rec |-> getRecordWithSinglePair(1, Len(response),
                                     getPairDuration(req.event, response),
                                     "dns", attrs),
     by |-> t]

InitUdpDns ==
    /\ now = 1
    /\ cfg \in {c \in Configs : c.connectTimeout = 0 /\ c.fdReuseTimeout = 1}
    /\ requestMonitor = [k \in Keys |-> 0]
    /\ heap = <<>>
    /\ tcpMessagePairSize = 0
    /\ pc = [t \in Threads |-> IF t = "router" THEN "idle" ELSE "dns_range"]
    /\ old = [t \in Threads |-> 0]
    /\ newPairs = <<>>
    /\ evt = <<>>
    /\ todo = {}
    /\ nEvents = 0
    /\ portCount = [p \in Parsers |-> [q \in Ports |-> 0]]
    /\ cachedParsers = [q \in Ports |-> <<>>]
    /\ sentinelHits = [q \in Ports |-> 0]
    /\ InitUdp
    /\ InitChannels

\* processEvent on a UDP request event of the DNS port:
\* consumeUdpDnsRequest parses it and does LoadOrStore(key, newDnsUdpCache())
consumeUdpDnsRequest(e) ==
    /\ evt' = <<e>>
    /\ IF dnsRequestMonitor[e.key] = 0
       THEN /\ dnsCaches' = Append(dnsCaches, newDnsUdpCache)
            /\ dnsRequestMonitor' =
                   [dnsRequestMonitor EXCEPT ![e.key] = Len(dnsCaches) + 1]
            /\ dnsCache' = [dnsCache EXCEPT !["router"] = Len(dnsCaches) + 1]
       ELSE /\ dnsCache' = [dnsCache EXCEPT !["router"] = dnsRequestMonitor[e.key]]
            /\ UNCHANGED <<dnsCaches, dnsRequestMonitor>>
    /\ Goto("router", "udp_add")

\* The router receives a UDP request event of the DNS port
UdpRequest ==
    /\ pc["router"] = "idle"
    /\ nEvents < MaxEvents
    /\ \E k \in Keys, i \in DnsIds, d \in Domains :
         consumeUdpDnsRequest(Event("request", k, 1, DnsPort, now, DnsData(i, d, 0)))
    /\ nEvents' = nEvents + 1
    /\ UNCHANGED <<now, cfg, tcpVars, lifeVars, cacheVars, udpReq, dnsTodo, udpRecords, udpMissed, dnsKey>>

\* consumeUdpDnsRequest: addRequest(parsedRequest) on the cache that
\* LoadOrStore returned
UdpAddRequest ==
    /\ pc["router"] = "udp_add"
    /\ dnsCaches' = [dnsCaches EXCEPT ![dnsCache["router"]] =
                        addRequest(@, UdpRequestOf(evt[1], nEvents))]
    /\ dnsCache' = [dnsCache EXCEPT !["router"] = 0]
    /\ evt' = <<>>
    /\ Goto("router", "idle")
    /\ UNCHANGED <<now, cfg, tcpVars, lifeVars, cacheVars, nEvents, dnsRequestMonitor,
                   udpReq, dnsTodo, udpRecords, udpMissed, dnsKey>>

\* processEvent on a UDP response event of the DNS port: it is parsed and
\* the cache of its udpKey loaded; without a cache the event is dropped
loadDnsUdpCache(e) ==
    IF dnsRequestMonitor[e.key] = 0
    THEN UNCHANGED <<pc, evt, dnsCache>>
    ELSE /\ evt' = <<e>>
         /\ dnsCache' = [dnsCache EXCEPT !["router"] = dnsRequestMonitor[e.key]]
         /\ Goto("router", "udp_match")

\* The router receives a UDP response event of the DNS port
UdpResponse ==
    /\ pc["router"] = "idle"
    /\ nEvents < MaxEvents
    /\ \E k \in Keys, i \in DnsIds, d \in Domains :
         loadDnsUdpCache(Event("response", k, 1, DnsPort, now, DnsData(i, d, 0)))
    /\ nEvents' = nEvents + 1
    /\ UNCHANGED <<now, cfg, tcpVars, lifeVars, cacheVars, dnsRequestMonitor, dnsCaches,
                   udpReq, dnsTodo, udpRecords, udpMissed, dnsKey>>

\* The response path after the Load: getMatchRequest, the Delete of the
\* udpKey when the cache is left empty, and the record of the matched pair
UdpMatch ==
    /\ pc["router"] = "udp_match"
    /\ LET c == dnsCache["router"]
           attrs == UdpResponseAttrs(evt[1])
           m == getMatchRequest(dnsCaches[c], attrs)
       IN  /\ dnsCaches' = [dnsCaches EXCEPT ![c] = m.cache]
           /\ dnsRequestMonitor' =
                  IF m.size <= 0
                  THEN [dnsRequestMonitor EXCEPT ![evt[1].key] = 0]
                  ELSE dnsRequestMonitor
           /\ udpRecords' =
                  IF m.request # <<>>
                  THEN Append(udpRecords, UdpRecord(m.request[1], attrs, evt, "router"))
                  ELSE udpRecords
           /\ udpMissed' =
                  IF m.request # <<>> THEN udpMissed
                  ELSE udpMissed \cup {dnsCaches[c][i][1].seq :
                                          i \in {j \in DnsIds : dnsCaches[c][j] # <<>>}}
    /\ dnsCache' = [dnsCache EXCEPT !["router"] = 0]
    /\ evt' = <<>>
    /\ Goto("router", "idle")
    /\ UNCHANGED <<now, cfg, tcpVars, lifeVars, cacheVars, nEvents, udpReq, dnsTodo, dnsKey>>

\* The sweeper's test on a pending request with > for >=
UdpTimedOutLate(req, clock) ==
    Sec(clock) - Sec(req.event.ts) > cfg.noResponseThreshold

\* lines 325-326: the sweeper's test on a pending request
UdpTimedOut(req, clock) ==
    Sec(clock) - Sec(req.event.ts) >= cfg.noResponseThreshold

\* dnsRequestMonitor.Range reaches the cache of a udpKey and starts the
\* Range over its requests
UdpRangeKey ==
    /\ pc["sweeper"] = "dns_range"
    /\ \E k \in Keys :
         /\ dnsRequestMonitor[k] # 0
         /\ dnsCache' = [dnsCache EXCEPT !["sweeper"] = dnsRequestMonitor[k]]
         /\ dnsKey' = k
    /\ dnsTodo' = DnsIds
    /\ Goto("sweeper", "dns_inner")
    /\ UNCHANGED <<now, cfg, tcpVars, lifeVars, cacheVars, evt, nEvents, dnsRequestMonitor,
                   dnsCaches, udpReq, udpRecords, udpMissed>>

\* requestCache.Range: the callback on one DnsId reads the request and
\* the clock; after the last DnsId the Range ends
UdpVisit ==
    /\ pc["sweeper"] = "dns_inner"
    /\ IF dnsTodo = {}
       THEN /\ Goto("sweeper", "dns_empty")
            /\ UNCHANGED <<dnsTodo, udpReq>>
       ELSE \E i \in dnsTodo :
              LET entry == dnsCaches[dnsCache["sweeper"]][i]
              IN  /\ dnsTodo' = dnsTodo \ {i}
                  /\ IF entry # <<>> /\ UdpTimedOut(entry[1], now)
                     THEN /\ udpReq' = entry
                          /\ Goto("sweeper", "dns_expire")
                     ELSE UNCHANGED <<pc, udpReq>>
    /\ UNCHANGED <<now, cfg, tcpVars, lifeVars, cacheVars, evt, nEvents, dnsRequestMonitor,
                   dnsCaches, dnsCache, udpRecords, udpMissed, dnsKey>>

\* lines 327-334: deleteRequest(k2) and the no-response record of udpReq
UdpExpire ==
    /\ pc["sweeper"] = "dns_expire"
    /\ dnsCaches' = [dnsCaches EXCEPT ![dnsCache["sweeper"]] =
                        deleteRequest(@, udpReq[1].attrs.id)]
    /\ udpRecords' = Append(udpRecords,
                            UdpRecord(udpReq[1], udpReq[1].attrs, <<>>, "sweeper"))
    /\ udpReq' = <<>>
    /\ Goto("sweeper", "dns_inner")
    /\ UNCHANGED <<now, cfg, tcpVars, lifeVars, cacheVars, evt, nEvents, dnsRequestMonitor,
                   dnsCache, dnsTodo, udpMissed, dnsKey>>

\* line 338: dnsCache.isEmpty()
UdpIsEmpty ==
    /\ pc["sweeper"] = "dns_empty"
    /\ IF isEmpty(dnsCaches[dnsCache["sweeper"]])
       THEN /\ Goto("sweeper", "dns_delete")
            /\ UNCHANGED <<dnsCache, dnsKey>>
       ELSE /\ Goto("sweeper", "dns_range")
            /\ dnsCache' = [dnsCache EXCEPT !["sweeper"] = 0]
            /\ dnsKey' = 0
    /\ UNCHANGED <<now, cfg, tcpVars, lifeVars, cacheVars, evt, nEvents, dnsRequestMonitor,
                   dnsCaches, udpReq, dnsTodo, udpRecords, udpMissed, dnsKey>>

\* line 339: na.dnsRequestMonitor.Delete(k)
UdpDelete ==
    /\ pc["sweeper"] = "dns_delete"
    /\ dnsRequestMonitor' = [dnsRequestMonitor EXCEPT ![dnsKey] = 0]
    /\ dnsCache' = [dnsCache EXCEPT !["sweeper"] = 0]
    /\ dnsKey' = 0
    /\ Goto("sweeper", "dns_range")
    /\ UNCHANGED <<now, cfg, tcpVars, lifeVars, cacheVars, evt, nEvents, dnsCaches, udpReq,
                   dnsTodo, udpRecords, udpMissed>>

UdpRouter == UdpRequest \/ UdpAddRequest \/ UdpResponse \/ UdpMatch

UdpSweeper == UdpRangeKey \/ UdpVisit \/ UdpExpire \/ UdpIsEmpty \/ UdpDelete

NextUdp == Tick \/ UdpRouter \/ UdpSweeper

SpecUdp == InitUdpDns /\ [][NextUdp]_vars

\* ------------------------------------------------ channels and shutdown
\* The analyzer from Start on: ConsumeEvent sends the events it is handed
\* to eventChan, ConsumeEventFromChannel receives and processes them,
\* consumerFdNoReusingTrace waits for its ticker, and Shutdown closes
\* stopChan.  A select with more than one ready case takes any of them.
MaxSent == 2            \* events handed to ConsumeEvent in one run
EventChannelSize == 2   \* config.EventChannelSize: the buffer of eventChan

DNSHeaderSize == 12

\* A KindlingEvent with the l4 protocol of its fd: one of category NET, a
\* payload longer than a DNS header and a positive result of the call.
\* ctx names the last of ctx, thread_info, fd_info and sip that the event
\* holds ("nil": ctx itself is nil); this one holds them all.
KindlingEvent(l4, e) ==
    [l4 |-> l4, event |-> e, category |-> "NET", ctx |-> "sip",
     dataLen |-> DNSHeaderSize + 1, resVal |-> DNSHeaderSize + 1]

\* The events ConsumeEvent may be handed at time t with every field the
\* router reads.  Kind "unknown" is an event that is neither a connect nor
\* one of the read and write calls.
WellFormed(t) ==
    {KindlingEvent("TCP", Event("connect", k, 1, DynPort, t, RawData)) : k \in Keys}
        \cup {KindlingEvent("TCP", Event(kind, k, 1, DynPort, t, HttpData(FALSE))) :
                 kind \in {"request", "response", "unknown"}, k \in Keys}
        \cup {KindlingEvent("UDP", Event(kind, k, 1, DnsPort, t, DnsData(1, 1, 0))) :
                 kind \in {"request", "response", "unknown"}, k \in Keys}

\* Those events with one field amiss: no payload or a failed call; for
\* the requests, another category, no ctx, no thread_info, no fd_info or
\* no sip; and the UDP events on a port that is not mapped to dns
Defective(t) ==
    UNION {{[ke EXCEPT !.dataLen = 0, !.resVal = 0],
            [ke EXCEPT !.resVal = -1]} : ke \in WellFormed(t)}
        \cup UNION {{[ke EXCEPT !.category = "OTHER"],
                     [ke EXCEPT !.ctx = "nil"],
                     [ke EXCEPT !.ctx = "ctx"],
                     [ke EXCEPT !.ctx = "thread_info"],
                     [ke EXCEPT !.ctx = "fd_info"]} :
                       ke \in {x \in WellFormed(t) : x.event.kind = "request"}}
        \cup {[ke EXCEPT !.event.dport = DynPort] :
                 ke \in {x \in WellFormed(t) : x.l4 = "UDP"}}

Incoming(t) == WellFormed(t) \cup Defective(t)

\* KindlingEvent.IsRequest: the direction of a read or write call, an
\* error for any other event
IsRequest(e) ==
    [isRequest |-> e.kind = "request",
     err |-> e.kind \notin {"request", "response"}]

\* processEvent without the test of data_len and res_val (lines 267-270)
dropSilentlyAnySize(ke) ==
    \/ ke.category # "NET"
    \/ ke.ctx \in {"nil", "ctx", "thread_info", "fd_info"}
    \/ ke.l4 = "UDP" /\ staticPortMap(ke.event.dport) # "dns"

\* processEvent lines 196-217 and 262-270, the returns of nil before
\* IsRequest: not of category NET; ctx, thread_info, fd_info or sip
\* missing; UDP on a port not mapped to dns; and, for an event that is not
\* UDP and not a connect, data_len <= 0 or res_val < 0
dropSilently(ke) ==
    \/ ke.category # "NET"
    \/ ke.ctx \in {"nil", "ctx", "thread_info", "fd_info"}
    \/ ke.l4 = "UDP" /\ staticPortMap(ke.event.dport) # "dns"
    \/ /\ ke.l4 # "UDP"
       /\ ke.event.kind # "connect"
       /\ ke.dataLen <= 0 \/ ke.resVal < 0

\* fastfailDnsRequest, fastfailDnsResponse: a payload no longer than the
\* DNS header is rejected by the package parser
fastfailDns(ke) == ke.dataLen <= DNSHeaderSize

\* processEvent returning the error of IsRequest, with the test of err
\* left out (lines 219-221 and 273-275)
processEventErrIgnored(ke) == FALSE

\* The error processEvent returns: that of IsRequest (lines 218-221 for
\* UDP, 272-275 for TCP, after the connect test of line 262)
processEventErr(ke) ==
    /\ ~dropSilently(ke)
    /\ ke.l4 = "UDP" \/ ke.event.kind # "connect"
    /\ IsRequest(ke.event).err

\* The UDP-DNS parser fails on the event and the failure is logged
\* (Warnf, lines 256 and 297)
processEventWarns(ke) ==
    /\ ~dropSilently(ke)
    /\ ~processEventErr(ke)
    /\ ke.l4 = "UDP"
    /\ fastfailDns(ke)

\* processEvent on an event that gets by IsRequest
processEvent(ke) ==
    LET e == ke.event
    IN  IF dropSilently(ke) \/ processEventWarns(ke)
        THEN UNCHANGED <<pc, evt, tcpVars, udpVars>>
        ELSE IF ke.l4 = "UDP"
        THEN IF IsRequest(e).isRequest
             THEN /\ consumeUdpDnsRequest(e)
                  /\ UNCHANGED <<tcpVars, udpReq, dnsTodo, udpRecords, udpMissed, dnsKey>>
             ELSE /\ loadDnsUdpCache(e)
                  /\ UNCHANGED <<tcpVars, dnsRequestMonitor, dnsCaches, udpReq,
                                 dnsTodo, udpRecords, udpMissed, dnsKey>>
        ELSE IF e.kind = "connect"
             THEN /\ analyseConnect(e)
                  /\ UNCHANGED <<tcpMessagePairSize, todo, udpVars>>
             ELSE IF IsRequest(e).isRequest
                  THEN /\ analyseRequest(e)
                       /\ UNCHANGED <<tcpMessagePairSize, todo, udpVars>>
                  ELSE /\ analyseResponse(e)
                       /\ UNCHANGED <<requestMonitor, heap, newPairs,
                                      tcpMessagePairSize, todo, udpVars>>

InitLife ==
    /\ now = 1
    /\ cfg \in {c \in Configs : c.connectTimeout = 1 /\ c.fdReuseTimeout = 1
                                /\ c.noResponseThreshold = 1}
    /\ requestMonitor = [k \in Keys |-> 0]
    /\ heap = <<>>
    /\ tcpMessagePairSize = 0
    /\ pc = [t \in Threads |-> IF t = "router" THEN "idle" ELSE "select"]
    /\ old = [t \in Threads |-> 0]
    /\ newPairs = <<>>
    /\ evt = <<>>
    /\ todo = {}
    /\ nEvents = 0
    /\ portCount = [p \in Parsers |-> [q \in Ports |-> 0]]
    /\ cachedParsers = [q \in Ports |-> <<>>]
    /\ sentinelHits = [q \in Ports |-> 0]
    /\ InitUdp
    /\ InitChannels

\* ConsumeEvent (lines 176-179): the send blocks while the channel is
\* full; the return value is nil
ConsumeEvent ==
    /\ Len(returned) < MaxSent
    /\ Len(eventChan) < EventChannelSize
    /\ \E ke \in Incoming(now) :
         /\ eventChan' = Append(eventChan, ke)
         /\ returned' = Append(returned, [event |-> ke, err |-> "nil"])
    /\ UNCHANGED <<now, cfg, tcpVars, pc, evt, nEvents, cacheVars, udpVars,
                   dnsKeys, stopChan, logged>>

\* Shutdown (lines 165-170): close(na.stopChan)
Shutdown ==
    /\ stopChan = "open"
    /\ stopChan' = "closed"
    /\ UNCHANGED <<now, cfg, tcpVars, pc, evt, nEvents, cacheVars, udpVars,
                   dnsKeys, eventChan, logged, returned>>

\* ConsumeEventFromChannel, case evt := <-na.eventChan (lines 184-188):
\* processEvent, and its error logged
ConsumeEventFromChannel ==
    /\ pc["router"] = "idle"
    /\ eventChan # <<>>
    /\ eventChan' = Tail(eventChan)
    /\ nEvents' = nEvents + 1
    /\ IF processEventErr(Head(eventChan))
       THEN /\ logged' = logged + 1
            /\ UNCHANGED <<pc, evt, tcpVars, udpVars>>
       ELSE /\ processEvent(Head(eventChan))
            /\ logged' = IF processEventWarns(Head(eventChan))
                         THEN logged + 1 ELSE logged
    /\ UNCHANGED <<now, cfg, cacheVars, dnsKeys, stopChan, returned>>

\* ConsumeEventFromChannel, case <-na.stopChan (lines 189-190)
RouterReturns ==
    /\ pc["router"] = "idle"
    /\ stopChan = "closed"
    /\ Goto("router", "done")
    /\ UNCHANGED <<now, cfg, tcpVars, evt, nEvents, cacheVars, udpVars, lifeVars>>

\* consumerFdNoReusingTrace, case <-timer.C (line 305): the Range over
\* requestMonitor begins
TimerFires ==
    /\ pc["sweeper"] = "select"
    /\ todo' = Keys
    /\ Goto("sweeper", "range")
    /\ UNCHANGED <<now, cfg, requestMonitor, heap, tcpMessagePairSize, old,
                   newPairs, evt, nEvents, cacheVars, udpVars, lifeVars>>

\* consumerFdNoReusingTrace, case <-na.stopChan (lines 343-345)
SweeperReturns ==
    /\ pc["sweeper"] = "select"
    /\ stopChan = "closed"
    /\ Goto("sweeper", "done")
    /\ UNCHANGED <<now, cfg, tcpVars, evt, nEvents, cacheVars, udpVars, lifeVars>>

\* The Range callback on one key of requestMonitor
TimerRangeVisit == todo # {} /\ RangeVisit

\* requestMonitor.Range has visited every key; dnsRequestMonitor.Range
\* begins (line 321)
RangeEnds ==
    /\ pc["sweeper"] = "range"
    /\ todo = {}
    /\ dnsKeys' = Keys
    /\ Goto("sweeper", "dns_range")
    /\ UNCHANGED <<now, cfg, tcpVars, evt, nEvents, cacheVars, udpVars,
                   eventChan, stopChan, logged, returned>>

\* dnsRequestMonitor.Range reaches a udpKey: with a cache there, the
\* Range over its requests starts
DnsRangeVisit ==
    /\ pc["sweeper"] = "dns_range"
    /\ \E k \in dnsKeys :
         /\ dnsKeys' = dnsKeys \ {k}
         /\ IF dnsRequestMonitor[k] # 0
            THEN /\ dnsCache' = [dnsCache EXCEPT !["sweeper"] = dnsRequestMonitor[k]]
                 /\ dnsKey' = k
                 /\ dnsTodo' = DnsIds
                 /\ Goto("sweeper", "dns_inner")
            ELSE UNCHANGED <<pc, dnsCache, dnsKey, dnsTodo>>
    /\ UNCHANGED <<now, cfg, tcpVars, evt, nEvents, cacheVars, dnsRequestMonitor,
                   dnsCaches, udpReq, udpRecords, udpMissed,
                   eventChan, stopChan, logged, returned>>

\* dnsRequestMonitor.Range has visited every udpKey: back to the select
DnsRangeEnds ==
    /\ pc["sweeper"] = "dns_range"
    /\ dnsKeys = {}
    /\ Goto("sweeper", "select")
    /\ UNCHANGED <<now, cfg, tcpVars, evt, nEvents, cacheVars, udpVars, lifeVars>>

LifeRouter ==
    \/ ConsumeEventFromChannel
    \/ RouterReturns
    \/ RecordSize
    \/ ConnectOld
    \/ RequestOld
    \/ StoreOld
    \/ ResponseOld
    \/ UdpAddRequest
    \/ UdpMatch

LifeSweeper ==
    \/ TimerFires
    \/ SweeperReturns
    \/ TimerRangeVisit
    \/ RangeEnds
    \/ DnsRangeVisit
    \/ DnsRangeEnds
    \/ UdpVisit
    \/ UdpExpire
    \/ UdpIsEmpty
    \/ UdpDelete

NextLife == Tick \/ ConsumeEvent \/ Shutdown \/ LifeRouter \/ LifeSweeper \/ Distribute

SpecLife == InitLife /\ [][NextLife]_vars


\* ===================================================================
\* Properties
\* ===================================================================
Objects == 1 .. Len(heap)
Flushing(t) == pc[t] \in {"check_send", "replace", "delete", "parse"}

\* C1: under every interleaving of the router with the sweeper, each
\* messagePairs object passes the latch of distributeTraceMetric at most
\* once, so parseProtocols and distributeRecords run at most once for it.
C1_AtMostOnce == \A id \in Objects : heap[id].parsed <= 1

\* C1 witness: a router flush and a sweeper flush of the same object
\* overlap, both have tried the latch, and the object was parsed.
C1_Witness ==
    \E id \in Objects :
        /\ old["router"] = id /\ Flushing("router")
        /\ old["sweeper"] = id /\ Flushing("sweeper")
        /\ heap[id].isSend = 2
        /\ heap[id].parsed = 1

\* The request buffer is one the http parser labels HttpContinue
LabeledContinue(mps) ==
    mps.requests # <<>> /\ parseProtocols(mps, portCount, cachedParsers).putBack

\* C2: when analyseRequest returns from a request whose old pair had
\* requests and another source port (and was not a 100-continue request,
\* which is re-inserted), the old pair has passed the latch, it was
\* emitted as one no-response record if it was parsed without responses,
\* and requestMonitor maps the key to a new pair holding only the request.
C2_FdReuseInstalls ==
    [][ ( /\ pc["router"] \in {"check_send", "parse"}
          /\ pc'["router"] = "idle"
          /\ evt[1].kind = "request"
          /\ heap[old["router"]].requests # <<>>
          /\ heap[old["router"]].responses = <<>>
          /\ IsSportChanged(heap[old["router"]].requests, evt[1])
          /\ ~LabeledContinue(heap[old["router"]]) )
        => LET o == heap'[old["router"]]
               cur == requestMonitor'[evt[1].key]
           IN  /\ o.isSend >= 1
               /\ o.parsed = 1 =>
                     /\ Len(o.out) = 1
                     /\ o.out[1].errorType = "NoResponse"
               /\ cur # 0
               /\ cur # old["router"]
               /\ heap'[cur].connects = <<>>
               /\ heap'[cur].requests = <<evt[1]>>
               /\ heap'[cur].responses = <<>> ]_vars

\* C3: the sweeper distributes a pair with only requests no earlier than
\* noResponseThreshold seconds after its last request, and a pair with
\* responses no earlier than fdReuseTimeout seconds after its last
\* response.  Stated of the Range callback's decision, which reads the pair
\* and the clock in one step, and granting the sweeper's whole seconds.
C3_TimeoutClassification ==
    [][ (pc["sweeper"] = "range" /\ pc'["sweeper"] = "check_send")
        => LET o == heap[old'["sweeper"]]
           IN  /\ (o.requests # <<>> /\ o.responses = <<>>) =>
                     Sec(now) - Sec(Last(o.requests).ts) >= cfg.noResponseThreshold
               /\ o.responses # <<>> =>
                     Sec(now) - Sec(Last(o.responses).ts) >= cfg.fdReuseTimeout ]_vars

\* A pair made by one connect event that no other event has reached
SingleConnect(mps) ==
    mps.requests = <<>> /\ mps.responses = <<>> /\ Len(mps.connects) = 1

\* C4 as claimed: once connectTimeout+1 seconds have passed since the
\* connect, a sweeper pass emits the pair (its Range callback finds it
\* timed out).
C4_AfterConnectTimeout ==
    \A k \in Keys :
        LET id == requestMonitor[k]
        IN  ( /\ id # 0
              /\ SingleConnect(heap[id])
              /\ heap[id].isSend = 0
              /\ now - heap[id].connects[1].ts >= (cfg.connectTimeout + 1) * Sub )
            => TimedOut(heap[id], now)

\* C4 as amended: a pair made by a single connect is emitted as exactly one
\* record, with errorType=ConnectFail and isError=true; the sweeper emits it
\* once the whole-second idle time now_sec - connect_sec has reached
\* noResponseThreshold and never before; connectTimeout plays no part.
C4_ConnectFailAtNoResponse ==
    \A id \in Objects :
        LET o == heap[id]
            idle == Sec(now) - Sec(o.connects[1].ts)
        IN  SingleConnect(o) =>
              /\ o.parsed = 0 => o.out = <<>>
              /\ o.parsed >= 1 =>
                    /\ o.parsed = 1
                    /\ Len(o.out) = 1
                    /\ o.out[1].errorType = "ConnectFail"
                    /\ o.out[1].isError
              /\ (old["sweeper"] = id /\ Flushing("sweeper")) =>
                    idle >= cfg.noResponseThreshold
              /\ (requestMonitor[o.key] = id /\ idle >= cfg.noResponseThreshold) =>
                    TimedOut(o, now)

\* C4 witness: the sweeper has emitted the ConnectFail record of a single
\* connect under a configuration with noResponseThreshold > connectTimeout+1.
C4_Witness ==
    \E id \in Objects :
        /\ SingleConnect(heap[id])
        /\ heap[id].parsed = 1
        /\ heap[id].out[1].by = "sweeper"
        /\ cfg.noResponseThreshold > cfg.connectTimeout + 1

\* C9: whichever goroutine flushes a pair whose parsed request is labeled
\* HttpContinue, no record is emitted and the request buffer is put back
\* into the pair stored under the key.
C9_ContinueReinserted ==
    [][ \A t \in Threads :
          ( /\ pc[t] = "parse"
            /\ pc'[t] # "parse"
            /\ LabeledContinue(heap[old[t]]) )
          => LET o == heap[old[t]]
                 cur == requestMonitor'[o.key]
             IN  /\ heap'[old[t]].out = o.out
                 /\ cur # 0
                 /\ Len(heap'[cur].requests) >= Len(o.requests)
                 /\ SubSeq(heap'[cur].requests, 1, Len(o.requests)) = o.requests ]_vars

\* ------------------------------------------------ DNS over TCP pairing
\* The drawn pair after parseMultipleRequests has run on it
Paired == heap # <<>> /\ pc["router"] = "idle" /\ heap[1].parsed = 1

\* Request i and response j carry the same DnsId and domain
SameQuery(mps, i, j) ==
    /\ mps.requests[i].data.id = mps.responses[j].data.id
    /\ mps.requests[i].data.dom = mps.responses[j].data.dom

\* The (request index, response index) pairs emitted; a no-response
\* record has response index 0
PairsIn(out) == {<<out[n].req, out[n].resp>> : n \in 1 .. Len(out)}

\* C5: parseMultipleRequests emits a record pairing Ri with Rspj if and
\* only if Ri and Rspj carry the same DnsId and domain, and every request
\* that matches no response is emitted exactly once as a no-response
\* record.
C5_PairsIffMatch ==
    Paired =>
        LET mps == heap[1]
            n == Len(mps.requests)
            m == Len(mps.responses)
        IN  /\ \A i \in 1 .. n, j \in 1 .. m :
                  <<i, j>> \in PairsIn(mps.out) <=> SameQuery(mps, i, j)
            /\ \A i \in 1 .. n :
                  (\A j \in 1 .. m : ~SameQuery(mps, i, j)) =>
                     Cardinality({k \in 1 .. Len(mps.out) :
                                    mps.out[k].req = i /\ mps.out[k].resp = 0}) = 1

\* The requests are pairwise distinct in (DnsId, domain) and every
\* response matches exactly one of them
DistinctAndMatched(mps) ==
    /\ \A i, k \in 1 .. Len(mps.requests) :
          (mps.requests[i].data.id = mps.requests[k].data.id
           /\ mps.requests[i].data.dom = mps.requests[k].data.dom) => i = k
    /\ \A j \in 1 .. Len(mps.responses) :
          \E i \in 1 .. Len(mps.requests) : SameQuery(mps, i, j)

\* The arrival orders of m responses
Orders(m) == {f \in [1 .. m -> 1 .. m] : \A a, b \in 1 .. m : f[a] = f[b] => a = b}

\* The pairs (request index, response payload) of the records that
\* parseMultipleRequests returns for the pair mps
PairsOf(mps) ==
    LET recs == parseMultipleRequests(mps, "dns").recs
    IN  {<<recs[n].req,
           IF recs[n].resp = 0 THEN RawData ELSE mps.responses[recs[n].resp].data>> :
            n \in 1 .. Len(recs)}

\* The pairs of the records emitted for the drawn pair
EmittedPairs(mps) ==
    {<<mps.out[n].req,
       IF mps.out[n].resp = 0 THEN RawData ELSE mps.responses[mps.out[n].resp].data>> :
        n \in 1 .. Len(mps.out)}

OrderIndependent(mps) ==
    \A f \in Orders(Len(mps.responses)) :
        PairsOf([mps EXCEPT !.responses =
                    [j \in 1 .. Len(mps.responses) |-> mps.responses[f[j]]]])
            = EmittedPairs(mps)

\* C6 as claimed: with pairwise distinct requests and every response
\* matching exactly one request, the emitted pairs are the same for every
\* arrival order of the responses and there are as many records as
\* requests.
C6_OrderAndCount ==
    (Paired /\ DistinctAndMatched(heap[1])) =>
        /\ OrderIndependent(heap[1])
        /\ Len(heap[1].out) = Len(heap[1].requests)

\* C6 as amended: under the same precondition the emitted pairs are the
\* same for every arrival order of the responses, every response is paired
\* with the request of its DnsId and domain, and the number of records is
\* the number of responses plus the number of requests that no response
\* matches.
C6_OrderAndCountPerResponse ==
    (Paired /\ DistinctAndMatched(heap[1])) =>
        LET mps == heap[1]
            n == Len(mps.requests)
            m == Len(mps.responses)
            alone == {i \in 1 .. n : \A j \in 1 .. m : ~SameQuery(mps, i, j)}
        IN  /\ OrderIndependent(mps)
            /\ \A k \in 1 .. Len(mps.out) :
                  mps.out[k].resp # 0 => SameQuery(mps, mps.out[k].req, mps.out[k].resp)
            /\ \A j \in 1 .. m : \E k \in 1 .. Len(mps.out) : mps.out[k].resp = j
            /\ Len(mps.out) = m + Cardinality(alone)

\* C6 witness: requests id 1, id 2 answered in the order id 2, id 1 have
\* given two records, request 1 with the second response and request 2
\* with the first.
C6_Witness ==
    /\ Paired
    /\ DistinctAndMatched(heap[1])
    /\ Len(heap[1].requests) = 2
    /\ heap[1].requests[1].data.id = 1
    /\ heap[1].requests[2].data.id = 2
    /\ Len(heap[1].responses) = 2
    /\ heap[1].responses[1].data.id = 2
    /\ heap[1].responses[2].data.id = 1
    /\ PairsIn(heap[1].out) = {<<1, 2>>, <<2, 1>>}
    /\ Len(heap[1].out) = 2

\* ------------------------------------------------------ the parser cache
InCache(cache, port, parser) ==
    \E i \in 1 .. Len(cache[port]) : cache[port][i] = parser

\* C7 as claimed: the NOSUPPORT parser leaves a port's cache at its
\* 5000th hit through that cache since it entered it, and not earlier.
C7_EvictedAfterResetThreshold ==
    [][ \A q \in Ports :
          /\ (InCache(cachedParsers, q, "generic")
              /\ ~InCache(cachedParsers', q, "generic"))
                => sentinelHits[q] + 1 = CACHE_RESET_THRESHOLD
          /\ (InCache(cachedParsers, q, "generic")
              /\ sentinelHits'[q] < CACHE_RESET_THRESHOLD)
                => InCache(cachedParsers', q, "generic") ]_vars

\* C7 as amended: the NOSUPPORT parser leaves a port's cache at the hit
\* through that cache that brings its counter for the port to
\* CACHE_RESET_THRESHOLD; the counter stands at CACHE_ADD_THRESHOLD when
\* the parser enters the cache and only those hits move it, so this is the
\* hit number CACHE_RESET_THRESHOLD - CACHE_ADD_THRESHOLD (4950) since it
\* entered, whether or not other parsers' hits come in between, and the
\* parser stays in the cache at every earlier hit.
C7_EvictedAtCounterThreshold ==
    [][ \A q \in Ports :
          /\ InCache(cachedParsers, q, "generic") =>
                portCount["generic"][q] = CACHE_ADD_THRESHOLD + sentinelHits[q]
          /\ (InCache(cachedParsers, q, "generic")
              /\ ~InCache(cachedParsers', q, "generic"))
                => /\ sentinelHits[q] + 1 = CACHE_RESET_THRESHOLD - CACHE_ADD_THRESHOLD
                   /\ portCount["generic"][q] + 1 = CACHE_RESET_THRESHOLD
                   /\ portCount'["generic"][q] = 0
          /\ (InCache(cachedParsers, q, "generic")
              /\ portCount'["generic"][q] # 0
              /\ portCount'["generic"][q] < CACHE_RESET_THRESHOLD)
                => InCache(cachedParsers', q, "generic")
          /\ portCount'["generic"][q] < CACHE_RESET_THRESHOLD ]_vars

\* C7 witness: the NOSUPPORT parser has been in DynPort's cache, has left
\* it, and http pairs were served by the cached http parser in between
\* (the cache is left holding the http parser alone).
C7_Witness ==
    /\ cachedParsers[DynPort] = <<"http">>
    /\ portCount["generic"][DynPort] = 0
    /\ portCount["http"][DynPort] = CACHE_ADD_THRESHOLD
    /\ pc["sweeper"] = "range"
    /\ heap # <<>>
    /\ heap[1].parsed = 1
    /\ heap[1].requests[1].data = RawData

\* C8: a parser enters a port's cache exactly at the step that brings its
\* success counter for the port to CACHE_ADD_THRESHOLD, never at another
\* step, and a port's cache never holds a parser twice.
C8_InstalledAtAddThreshold ==
    [][ \A q \in Ports, p \in Parsers :
          /\ (~InCache(cachedParsers, q, p) /\ InCache(cachedParsers', q, p))
                <=> (portCount[p][q] = CACHE_ADD_THRESHOLD - 1
                     /\ portCount'[p][q] = CACHE_ADD_THRESHOLD)
          /\ \A i, j \in 1 .. Len(cachedParsers'[q]) :
                cachedParsers'[q][i] = cachedParsers'[q][j] => i = j ]_vars

\* C8 witness: the http parser and the NOSUPPORT parser have both entered
\* DynPort's cache and pairs have been parsed through it since.
C8_Witness ==
    /\ cachedParsers[DynPort] = <<"http", "generic">>
    /\ portCount["http"][DynPort] = CACHE_ADD_THRESHOLD
    /\ portCount["generic"][DynPort] > CACHE_ADD_THRESHOLD

\* --------------------------------------------------------- DNS over UDP
\* The router's step from getMatchRequest on, for a response that matches
\* no pending request of the cache it loaded
UnmatchedResponseStep ==
    /\ pc["router"] = "udp_match"
    /\ pc'["router"] = "idle"
    /\ ~Matches(dnsCaches[dnsCache["router"]], UdpResponseAttrs(evt[1]))

\* The sweeper's step that deletes udpReq and distributes its record
ExpireStep == pc["sweeper"] = "dns_expire" /\ pc'["sweeper"] = "dns_inner"

\* The record of the step is one no-response record of udpReq, the first
\* the sweeper distributes for that request
ExpiredOnce ==
    /\ udpRecords' = Append(udpRecords,
                            [seq |-> udpReq[1].seq,
                             rec |-> Record("dns", TRUE, "NoResponse", FALSE,
                                            udpReq[1].attrs, 1, 0, FALSE),
                             by |-> "sweeper"])
    /\ \A n \in 1 .. Len(udpRecords) :
          ~(udpRecords[n].seq = udpReq[1].seq /\ udpRecords[n].by = "sweeper")

\* The sweeper's callback on a pending request that is idle for
\* noResponseThreshold whole seconds goes on to expire it
VisitExpires ==
    (pc["sweeper"] = "dns_inner" /\ dnsTodo' # dnsTodo) =>
        \A i \in dnsTodo \ dnsTodo' :
            LET entry == dnsCaches[dnsCache["sweeper"]][i]
            IN  (entry # <<>>
                 /\ Sec(now) - Sec(entry[1].event.ts) >= cfg.noResponseThreshold)
                => (pc'["sweeper"] = "dns_expire" /\ udpReq' = entry)

ResponsesHaveRequests ==
    \A id \in Objects : heap[id].responses # <<>> => heap[id].requests # <<>>

\* The step of analyseResponse that finds no pair under the event's key
ResponseMissingKey ==
    /\ pc["router"] = "idle"
    /\ pc'["router"] = "idle"
    /\ nEvents' = nEvents + 1

\* The step of analyseResponse that finds a pair without requests
ResponseNoRequests ==
    /\ pc["router"] = "response_old"
    /\ pc'["router"] # "response_old"
    /\ heap[old["router"]].requests = <<>>

\* C11: every pair in requestMonitor (every pair there is) that holds
\* responses holds requests, and a response event that finds no pair under
\* its key, or a pair without requests, is dropped: the map, the pairs and
\* the flow-size counter stay as they are and the handler returns.
C11_ResponsesNeedRequests ==
    [][ /\ ResponsesHaveRequests
        /\ ResponsesHaveRequests'
        /\ (ResponseMissingKey \/ ResponseNoRequests) =>
               /\ pc'["router"] = "idle"
               /\ UNCHANGED <<requestMonitor, heap, tcpMessagePairSize>> ]_vars

\* C11 witness: three events have arrived and all they have left is one
\* unsent pair with one connect and one request: the third event was a
\* response that was dropped.
C11_Witness ==
    /\ nEvents = 3
    /\ pc["router"] = "idle"
    /\ Len(heap) = 1
    /\ requestMonitor[heap[1].key] = 1
    /\ Len(heap[1].connects) = 1
    /\ Len(heap[1].requests) = 1
    /\ heap[1].responses = <<>>
    /\ heap[1].isSend = 0

\* ------------------------------------------ what emits a pair with responses
\* The step is one of goroutine t
StepOf(t) == pc'[t] # pc[t]

\* The step is one of the router's handler of an event of the kind
RouterHandles(kind) ==
    /\ StepOf("router")
    /\ evt # <<>>
    /\ evt[1].kind = kind

\* The step emits records of the pair id
Emits(id) == heap'[id].out # heap[id].out

\* No step of the router's handler of a response event emits a record
ResponseNeverEmits ==
    (StepOf("router") /\ (evt = <<>> \/ evt[1].kind = "response"))
        => \A id \in Objects : ~Emits(id)

\* C12 as claimed: processing a response event never emits a record, and
\* a pair that holds responses is emitted only by a step of the handler of
\* a request event or by a step of the sweeper.
C12_OnlyRequestOrSweeper ==
    [][ /\ ResponseNeverEmits
        /\ \A id \in Objects :
             (heap[id].responses # <<>> /\ Emits(id))
                 => StepOf("sweeper") \/ RouterHandles("request") ]_vars

\* C12: processing a response event never emits a record, and a pair that
\* holds responses is emitted only by a step of the handler of a request
\* event or of a connect event on its key, or by a step of the sweeper.
C12_RequestConnectOrSweeper ==
    [][ /\ ResponseNeverEmits
        /\ \A id \in Objects :
             (heap[id].responses # <<>> /\ Emits(id))
                 => \/ StepOf("sweeper")
                    \/ RouterHandles("request") /\ evt[1].key = heap[id].key
                    \/ RouterHandles("connect") /\ evt[1].key = heap[id].key ]_vars

\* C12 witness: the router has emitted a pair that holds responses and
\* its key now maps to a pair with nothing but connects, the one that the
\* connect event which flushed it brought.
C12_Witness ==
    \E id \in Objects :
        /\ heap[id].responses # <<>>
        /\ heap[id].out # <<>>
        /\ heap[id].out[1].by = "router"
        /\ requestMonitor[heap[id].key] \notin {0, id}
        /\ LET n == heap[requestMonitor[heap[id].key]]
           IN  n.connects # <<>> /\ n.requests = <<>>

\* ------------------------------------------------- an error of IsRequest
\* The router receives the next event of the channel, one for which
\* IsRequest returns an error
ReceivesUnknown ==
    /\ pc["router"] = "idle"
    /\ eventChan # <<>>
    /\ eventChan' = Tail(eventChan)
    /\ Head(eventChan).event.kind = "unknown"
    /\ ~dropSilently(Head(eventChan))

\* Nothing the analyzer holds of TCP pairs or of UDP-DNS requests changes
StateUntouched ==
    UNCHANGED <<requestMonitor, heap, tcpMessagePairSize, dnsRequestMonitor,
                dnsCaches, udpRecords>>

\* C13 as claimed: ConsumeEvent returns the error of IsRequest for the
\* event it was handed; processing that event changes no pair and no DNS
\* cache, and the router is back at its select afterwards.
C13_SurfacedFromConsumeEvent ==
    [][ /\ \A i \in 1 .. Len(returned') :
             returned'[i].event.event.kind = "unknown" => returned'[i].err # "nil"
        /\ ReceivesUnknown => StateUntouched /\ pc'["router"] = "idle" ]_vars

\* C13: ConsumeEvent returns nil for every event; the error of IsRequest
\* is returned by processEvent to the router loop, which logs it; the
\* event changes no pair and no DNS cache, and the router is back at its
\* select afterwards, where the next event of the channel can be received.
C13_LoggedByRouterLoop ==
    [][ /\ \A i \in 1 .. Len(returned') : returned'[i].err = "nil"
        /\ ReceivesUnknown =>
              /\ logged' = logged + 1
              /\ StateUntouched
              /\ pc'["router"] = "idle" ]_vars

\* C13 witness: the first event sent was one with an IsRequest error, it
\* was logged, and the event sent after it was received and stored a pair
\* or a DNS cache.
C13_Witness ==
    /\ Len(returned) = 2
    /\ returned[1].event.event.kind = "unknown"
    /\ ~dropSilently(returned[1].event)
    /\ logged = 1
    /\ nEvents = 2
    /\ \E k \in Keys : requestMonitor[k] # 0 \/ dnsRequestMonitor[k] # 0

\* ------------------------------------------------------------- Shutdown
\* C14: once stopChan is closed the router receives no event from the
\* channel and no record is distributed, neither for a TCP pair nor for a
\* UDP-DNS request.
C14_NothingAfterShutdown ==
    [][ stopChan = "closed" =>
            /\ Len(eventChan') >= Len(eventChan)
            /\ \A id \in Objects : ~Emits(id)
            /\ udpRecords' = udpRecords ]_vars

\* -------------------------------------------------- latched pairs in the map
\* Neither goroutine is in the middle of a handler or of a Range callback
Quiescent == pc["router"] = "idle" /\ pc["sweeper"] = "range"

\* C15: whenever neither the router nor the sweeper is in the middle of a
\* handler, no pair stored in requestMonitor has passed the latch of
\* checkSend.
C15_NoLatchedInMap ==
    Quiescent =>
        \A k \in Keys :
            requestMonitor[k] # 0 => heap[requestMonitor[k]].isSend = 0

\* ------------------------------------------------- the flow-size counters
\* The keys in requestMonitor
KeysInMap == {k \in Keys : requestMonitor[k] # 0}

\* C17: tcpMessagePairSize is never negative and, whenever neither the
\* router nor the sweeper is in the middle of a handler, it equals the
\* number of keys in requestMonitor (udpMessagePairSize stays 0: no UDP
\* event reaches recordMessagePairSize).
C17_SizeMatchesKeys ==
    /\ tcpMessagePairSize >= 0
    /\ Quiescent => tcpMessagePairSize = Cardinality(KeysInMap)

\* ------------------------------------------- records of a UDP-DNS request
\* C18: no two records of the UDP-DNS paths report the same pending
\* request: a request is never distributed both by the router, paired with
\* its response, and by the sweeper, as a no-response record.
C18_AtMostOneRecord ==
    \A i, j \in 1 .. Len(udpRecords) :
        udpRecords[i].seq = udpRecords[j].seq => i = j

\* The requests pending in the cache c
PendingIn(c) ==
    {dnsCaches[c][i][1].seq : i \in {y \in DnsIds : dnsCaches[c][y] # <<>>}}

\* The requests the sweeper can still reach: those pending in the cache
\* of a udpKey of dnsRequestMonitor and the one its callback holds
PendingSeqs ==
    UNION {PendingIn(dnsRequestMonitor[k]) :
              k \in {x \in Keys : dnsRequestMonitor[x] # 0}}
        \cup {udpReq[n].seq : n \in 1 .. Len(udpReq)}

\* The requests reported by a record
RecordedSeqs == {udpRecords[n].seq : n \in 1 .. Len(udpRecords)}

\* The router's addRequest of the request event numbered nEvents
AddsRequest == pc["router"] = "udp_add" /\ pc'["router"] = "idle"

\* C19: a parsed UDP-DNS request is never lost: the request that
\* addRequest stores is pending afterwards, and a pending request stays
\* pending until a record reports it.
C19_NeverLost ==
    [][ /\ AddsRequest => nEvents \in PendingSeqs'
        /\ PendingSeqs \subseteq (PendingSeqs' \cup RecordedSeqs') ]_vars

\* ------------------------------------------- a connect on an existing pair
\* The router's step out of analyseConnect's test of the old pair
ConnectDecides == pc["router"] = "connect_old" /\ StepOf("router")

\* The router's return from the distributeTraceMetric of analyseConnect
\* (but for an old pair parsed as a 100-continue request, whose requests
\* are re-inserted into the new pair)
ConnectFlushReturns ==
    /\ pc["router"] \in {"check_send", "parse"}
    /\ pc'["router"] = "idle"
    /\ evt # <<>>
    /\ evt[1].kind = "connect"
    /\ ~LabeledContinue(heap[old["router"]])

\* C20: a connect event on a key with a pair: a pair with connects and
\* no requests whose connects are within connectTimeout of the event gets
\* the event appended and nothing is emitted; otherwise the old pair is
\* distributed (as one ConnectFail record when it has no requests) and,
\* when analyseConnect returns, requestMonitor maps the key to a new pair
\* holding only the connect event.
C20_ConnectOnExisting ==
    [][ /\ ConnectDecides =>
             LET id == old["router"]
                 o == heap[id]
             IN  IF /\ o.connects # <<>>
                    /\ o.requests = <<>>
                    /\ ~IsTimeout(o.connects, evt[1], cfg.connectTimeout)
                 THEN /\ pc'["router"] = "idle"
                      /\ heap'[id] = [o EXCEPT !.connects = Append(@, evt[1])]
                      /\ \A j \in Objects : ~Emits(j)
                 ELSE pc'["router"] = "check_send"
        /\ ConnectFlushReturns =>
             LET o == heap'[old["router"]]
                 cur == requestMonitor'[evt[1].key]
             IN  /\ o.isSend >= 1
                 /\ (o.parsed = 1 /\ o.requests = <<>>) =>
                       /\ Len(o.out) = 1
                       /\ o.out[1].errorType = "ConnectFail"
                 /\ cur # 0
                 /\ cur # old["router"]
                 /\ heap'[cur].connects = <<evt[1]>>
                 /\ heap'[cur].requests = <<>>
                 /\ heap'[cur].responses = <<>> ]_vars

\* --------------------------------------------------- reclaiming the map
\* The key maps to a pair with a last-event timestamp that the sweeper's
\* test accepts before the clock ends, and the router is between events
Reclaimable(k) ==
    /\ requestMonitor[k] # 0
    /\ pc["router"] = "idle"
    /\ getTimeoutTs(heap[requestMonitor[k]]) # 0
    /\ TimedOut(heap[requestMonitor[k]], MaxTick)

\* C16: a pair in requestMonitor with a non-zero last-event timestamp is
\* eventually removed from the map unless a further event arrives.
C16_EventuallyRemoved ==
    \A k \in Keys, n \in 1 .. MaxEvents :
        (Reclaimable(k) /\ nEvents = n) ~> (requestMonitor[k] = 0 \/ nEvents # n)

\* ------------------------------------------- a request on an existing pair
\* The router's step out of analyseRequest's test of the old pair
RequestDecides == pc["router"] = "request_old" /\ StepOf("router")

\* The router's return from the distributeTraceMetric of analyseRequest
\* (but for an old pair parsed as a 100-continue request, whose requests
\* are re-inserted into the new pair)
RequestFlushReturns ==
    /\ pc["router"] \in {"check_send", "parse"}
    /\ pc'["router"] = "idle"
    /\ evt # <<>>
    /\ evt[1].kind = "request"
    /\ ~LabeledContinue(heap[old["router"]])

\* The key of the event maps to a new pair holding only the request
InstalledRequestOnly ==
    LET cur == requestMonitor'[evt[1].key]
    IN  /\ cur # 0
        /\ cur # old["router"]
        /\ heap'[cur].connects = <<>>
        /\ heap'[cur].requests = <<evt[1]>>
        /\ heap'[cur].responses = <<>>

\* C21: a request event on a key with a pair: an old pair without
\* requests and connects is overwritten by the new request-only pair; one
\* with connects and no requests gets the request merged; one with
\* requests that also has responses, or another source port, is flushed
\* and, when analyseRequest returns, the key maps to a new pair holding
\* only the request; otherwise the request is appended to the old pair's
\* requests and nothing is emitted.
C21_RequestOnExisting ==
    [][ /\ RequestDecides =>
             LET id == old["router"]
                 o == heap[id]
                 merged == [o EXCEPT !.requests = Append(@, evt[1])]
             IN  IF o.requests = <<>> /\ o.connects = <<>>
                 THEN InstalledRequestOnly /\ pc'["router"] = "idle"
                 ELSE IF o.requests = <<>>
                 THEN heap'[id] = merged /\ \A j \in Objects : ~Emits(j)
                 ELSE IF o.responses # <<>> \/ IsSportChanged(o.requests, evt[1])
                 THEN pc'["router"] = "check_send"
                 ELSE /\ heap'[id] = merged
                      /\ pc'["router"] = "idle"
                      /\ \A j \in Objects : ~Emits(j)
        /\ RequestFlushReturns =>
             /\ heap'[old["router"]].isSend >= 1
             /\ InstalledRequestOnly ]_vars

\* ------------------------------------------------------- silent drops
\* The router receives the next event of the channel
Receives == pc["router"] = "idle" /\ eventChan # <<>> /\ eventChan' = Tail(eventChan)

\* processEvent returns nil, nothing is logged, no record is distributed
\* and the maps and the flow-size counter stay as they are
Silent ==
    /\ pc'["router"] = "idle"
    /\ logged' = logged
    /\ udpRecords' = udpRecords
    /\ \A id \in Objects : ~Emits(id)
    /\ UNCHANGED <<requestMonitor, heap, dnsRequestMonitor, dnsCaches,
                   tcpMessagePairSize>>

\* The event lacks a field every event must have, or is UDP on a port
\* that is not mapped to dns
Unusable(ke) ==
    \/ ke.category # "NET"
    \/ ke.ctx # "sip"
    \/ ke.l4 = "UDP" /\ staticPortMap(ke.event.dport) # "dns"

\* The event has no payload or is one of a failed call
NoPayload(ke) == ke.dataLen <= 0 \/ ke.resVal < 0

\* C22 as claimed: an event that is not of category NET, lacks ctx,
\* thread_info, fd_info or sip, is UDP on a port not mapped to dns, or is
\* not a connect and has data_len <= 0 or res_val < 0, is dropped
\* silently.
C22_DroppedSilently ==
    [][ ( /\ Receives
          /\ \/ Unusable(Head(eventChan))
             \/ Head(eventChan).event.kind # "connect" /\ NoPayload(Head(eventChan)) )
        => Silent ]_vars

\* C22: an event that is not of category NET, lacks ctx, thread_info,
\* fd_info or sip, is UDP on a port not mapped to dns, or is neither UDP
\* nor a connect and has data_len <= 0 or res_val < 0, is dropped
\* silently.
C22_DroppedInOrder ==
    [][ ( /\ Receives
          /\ \/ Unusable(Head(eventChan))
             \/ /\ Head(eventChan).l4 # "UDP"
                /\ Head(eventChan).event.kind # "connect"
                /\ NoPayload(Head(eventChan)) )
        => Silent ]_vars

\* C22 witness: a TCP request has stored its pair, and a second TCP
\* request on the same key, one without payload, was received after it
\* and has left no trace.
C22_Witness ==
    /\ Len(returned) = 2
    /\ nEvents = 2
    /\ pc["router"] = "idle"
    /\ returned[1].event \in WellFormed(returned[1].event.event.ts)
    /\ returned[1].event.l4 = "TCP"
    /\ returned[1].event.event.kind = "request"
    /\ returned[2].event.l4 = "TCP"
    /\ returned[2].event.event.kind = "request"
    /\ returned[2].event.event.key = returned[1].event.event.key
    /\ returned[2].event.category = "NET"
    /\ returned[2].event.dataLen = 0
    /\ logged = 0
    /\ Len(heap) = 1
    /\ Len(heap[1].requests) = 1
    /\ heap[1].out = <<>>
    /\ tcpMessagePairSize = 1

\* ------------------------------------------- what distributeTraceMetric does
\* The newPairs argument of goroutine t's call: the sweeper passes nil
NewOf(t) == IF t = "router" THEN newPairs ELSE <<>>

\* Goroutine t's call is at its guards with an old pair that lacks both
\* connects and requests or has its latch set
Skipped(t) ==
    /\ pc[t] = "check_send"
    /\ StepOf(t)
    /\ \/ heap[old[t]].connects = <<>> /\ heap[old[t]].requests = <<>>
       \/ heap[old[t]].isSend >= 1

\* Goroutine t's call is at its guards with an old pair that passes them
Passed(t) ==
    /\ pc[t] = "check_send"
    /\ StepOf(t)
    /\ heap[old[t]].connects # <<>> \/ heap[old[t]].requests # <<>>
    /\ heap[old[t]].isSend = 0

\* The step leaves the map and the flow-size counter as they are
MapAndSizeUnchanged == UNCHANGED <<requestMonitor, tcpMessagePairSize>>

\* C23: a call distributeTraceMetric(old, new) whose old pair lacks both
\* connects and requests, or has its latch set, returns at once: nothing
\* is emitted, the map and the counter are unchanged and new is not
\* installed.  Otherwise the call goes on: with new = nil it takes 1 off
\* the flow-size counter and deletes the key of old, with a new pair it
\* maps the key to that pair and leaves the counter; its parse step
\* changes neither.
C23_EmitterFrame ==
    [][ \A t \in Threads :
          /\ Skipped(t) =>
                /\ pc'[t] = (IF t = "router" THEN "idle" ELSE "range")
                /\ MapAndSizeUnchanged
                /\ \A id \in Objects : ~Emits(id)
          /\ Passed(t) =>
                /\ pc'[t] = "replace"
                /\ MapAndSizeUnchanged
          /\ (pc[t] = "replace" /\ StepOf(t)) =>
                IF NewOf(t) = <<>>
                THEN /\ tcpMessagePairSize' = tcpMessagePairSize - 1
                     /\ UNCHANGED requestMonitor
                     /\ pc'[t] = "delete"
                ELSE /\ UNCHANGED tcpMessagePairSize
                     /\ requestMonitor'[heap[old[t]].key] \notin {0, old[t]}
                     /\ heap'[requestMonitor'[heap[old[t]].key]] = newPairs[1]
                     /\ \A k \in Keys \ {heap[old[t]].key} :
                           requestMonitor'[k] = requestMonitor[k]
                     /\ pc'[t] = "parse"
          /\ (pc[t] = "delete" /\ StepOf(t)) =>
                /\ requestMonitor' =
                      [requestMonitor EXCEPT ![heap[old[t]].key] = 0]
                /\ UNCHANGED tcpMessagePairSize
                /\ pc'[t] = "parse"
          /\ (pc[t] = "parse" /\ StepOf(t)) => MapAndSizeUnchanged ]_vars

\* C23 witness: the router's call with a new pair found the latch of the
\* old pair set by the sweeper and returned: the sweeper's call has taken
\* the old pair out of the map and off the counter and emitted it, and
\* the new pair was not installed.
C23_Witness ==
    /\ Quiescent
    /\ nEvents = 2
    /\ Len(heap) = 1
    /\ heap[1].isSend = 2
    /\ heap[1].parsed = 1
    /\ requestMonitor[heap[1].key] = 0
    /\ tcpMessagePairSize = 0

\* ---------------------------------------------------------------------
\* C24: a flushed state of a port with a static protocol yields exactly
\* one ConnectFail record when it has no requests, and exactly one record
\* labeled with the static protocol and without parsed attributes when it
\* has requests and the static protocol's parser is missing or fails; in
\* both cases no counter and no parser cache changes.
ParseStep == pc["sweeper"] = "parse" /\ pc'["sweeper"] # "parse"

\* The state parseProtocols is given and the records distributed for it
ParsedState == heap[old["sweeper"]]
ParsedRecords == heap'[old["sweeper"]].out

\* The dns parser rejects the state: a request or a response is not a
\* DNS message, or a response has the DnsId and domain of no request
DnsRejects(mps) ==
    \/ \E i \in 1 .. Len(mps.requests) : mps.requests[i].data.proto # "dns"
    \/ \E j \in 1 .. Len(mps.responses) :
          \/ mps.responses[j].data.proto # "dns"
          \/ \A i \in 1 .. Len(mps.requests) :
                \/ mps.requests[i].data.id # mps.responses[j].data.id
                \/ mps.requests[i].data.dom # mps.responses[j].data.dom

\* The static protocol's parser is missing or fails
StaticParserFails(mps) ==
    \/ staticPortMap(getPort(mps)) = "mysql"
    \/ staticPortMap(getPort(mps)) = "dns" /\ DnsRejects(mps)

C24_StaticPort ==
    [][ParseStep /\ staticPortMap(getPort(ParsedState)) # "" =>
         /\ ParsedState.requests = <<>> =>
               /\ Len(ParsedRecords) = 1
               /\ ParsedRecords[1].errorType = "ConnectFail"
               /\ UNCHANGED <<portCount, cachedParsers>>
         /\ ParsedState.requests # <<>> /\ StaticParserFails(ParsedState) =>
               /\ Len(ParsedRecords) = 1
               /\ ParsedRecords[1].protocol = staticPortMap(getPort(ParsedState))
               /\ ParsedRecords[1].attrs.nil
               /\ UNCHANGED <<portCount, cachedParsers>>]_vars

\* A state of the dns port whose response matches no request has been
\* parsed into one dns record without attributes
C24_Witness ==
    /\ heap # <<>>
    /\ heap[1].parsed = 1
    /\ getPort(heap[1]) = DnsPort
    /\ heap[1].requests # <<>>
    /\ heap[1].responses # <<>>
    /\ \A i \in 1 .. Len(heap[1].requests) : heap[1].requests[i].data.proto = "dns"
    /\ DnsRejects(heap[1])
    /\ Len(heap[1].out) = 1
    /\ heap[1].out[1].protocol = "dns"
    /\ heap[1].out[1].attrs.nil

\* ---------------------------------------------------------------------
\* C25: a flushed state with requests of a port without static protocol
\* is given to the port's cached parsers in list order, then to the active
\* parsers with the generic one last; the records are those of the first
\* parser that returns non-nil; no other parser's counter changes; a
\* NOSUPPORT record without parsed attributes is produced only if every
\* parser returned nil.  The first parser's counter is incremented when
\* it was reached in the scan of the active parsers, and when it is the
\* NOSUPPORT parser reached in the cache (where CACHE_RESET_THRESHOLD
\* resets it to 0); a hit of another parser in the cache counts nothing.
DynamicStep ==
    /\ ParseStep
    /\ staticPortMap(getPort(ParsedState)) = ""
    /\ ParsedState.requests # <<>>

\* The parsers in the order they are tried, and the position of the
\* first that returns non-nil (0: none does)
TryOrder == cachedParsers[getPort(ParsedState)] \o parsers
FirstNonNil ==
    LET S == {i \in 1 .. Len(TryOrder) : parseProtocol(ParsedState, TryOrder[i]).ok}
    IN  IF S = {} THEN 0 ELSE CHOOSE i \in S : \A j \in S : i <= j

\* The records of the parser, as distributed
RecordsOf(parser) ==
    LET recs == parseProtocol(ParsedState, parser).recs
    IN  [i \in 1 .. Len(recs) |-> Emitted(recs[i], "sweeper")]

FallbackRecord(r) == r.protocol = "NOSUPPORT" /\ r.attrs.nil

\* The records are the first parser's; the fallback record needs every
\* parser to have returned nil
FirstParserWins ==
    /\ FirstNonNil # 0 => ParsedRecords = RecordsOf(TryOrder[FirstNonNil])
    /\ (\E i \in 1 .. Len(ParsedRecords) : FallbackRecord(ParsedRecords[i])) =>
          /\ FirstNonNil = 0
          /\ Len(ParsedRecords) = 1

\* The counter of the parser for the port of the state becomes n, and no
\* other counter changes
CounterBecomes(parser, n) ==
    portCount' = [portCount EXCEPT ![parser][getPort(ParsedState)] = n]

CounterOf(parser) == portCount[parser][getPort(ParsedState)]

HasResponse(r) ==
    IF r.req = 0 THEN ParsedState.responses # <<>> ELSE r.resp # 0

FirstMatch(r) ==
    IF ParsedState.requests = <<>> THEN "ConnectFail"
    ELSE IF ~r.attrs.nil /\ r.attrs.isError THEN "ProtocolError"
    ELSE IF ~HasResponse(r) THEN "NoResponse"
    ELSE "NoError"

C26_Classified ==
    [][ParseStep =>
         \A i \in 1 .. Len(ParsedRecords) :
            LET r == ParsedRecords[i]
            IN  /\ r.errorType = FirstMatch(r)
                /\ r.isError <=> r.errorType # "NoError"
                /\ HasResponse(r) => r.errorType # "NoResponse"]_vars

\* C26 witness: a DNS request and its response with rcode 1 (a protocol
\* error), and after them a request without response, have been emitted
\* as a ProtocolError record and a NoResponse record
C26_Witness ==
    /\ heap # <<>>
    /\ heap[1].parsed = 1
    /\ Len(heap[1].out) = 2
    /\ heap[1].out[1].errorType = "ProtocolError"
    /\ heap[1].out[1].resp # 0
    /\ heap[1].out[2].errorType = "NoResponse"
    /\ heap[1].out[2].resp = 0

\* ---------------------------------------------------------------------
\* C27: for every record of a state with requests, built by getRecords or
\* getRecordWithSinglePair, isSlow is true exactly when the duration in
\* nanoseconds is at least the protocol's threshold in milliseconds times
\* 1,000,000, the threshold being the protocol's configured value when
\* that is positive and the global one otherwise; also for a record
\* without a response and for a threshold of 0.
\* The duration of the record: of the merged buffers, or of its pair
DurationOf(r) ==
    IF r.req = 0 THEN getDuration(ParsedState)
    ELSE IF r.resp = 0 THEN 0
    ELSE Ns(ParsedState.responses[r.resp].ts - ParsedState.requests[r.req].ts)

ThresholdOf(protocol) ==
    IF protocol \in Configured /\ cfg.slowThresholdMap[protocol] > 0
    THEN cfg.slowThresholdMap[protocol]
    ELSE cfg.responseSlowThreshold

OverThreshold(r) == DurationOf(r) >= ThresholdOf(r.protocol) * 1000000

C27_SlowByThreshold ==
    [][ParseStep /\ ParsedState.requests # <<>> =>
         \A i \in 1 .. Len(ParsedRecords) :
            ParsedRecords[i].isSlow <=> OverThreshold(ParsedRecords[i])]_vars

\* The record of the merged buffers of a state without a response is
\* never slow; every other record is slow exactly when its duration
\* reaches the threshold
C27_SlowWithResponse ==
    [][ParseStep /\ ParsedState.requests # <<>> =>
         \A i \in 1 .. Len(ParsedRecords) :
            LET r == ParsedRecords[i]
            IN  r.isSlow <=>
                   /\ r.req = 0 => ParsedState.responses # <<>>
                   /\ OverThreshold(r)]_vars

\* C27 witness: with every threshold 0 the merged record of an http
\* request without a response was emitted as not slow
C27_Witness ==
    /\ heap # <<>>
    /\ heap[1].parsed = 1
    /\ heap[1].responses = <<>>
    /\ cfg.responseSlowThreshold = 0
    /\ cfg.slowThresholdMap["http"] = 0
    /\ Len(heap[1].out) = 1
    /\ heap[1].out[1].protocol = "http"
    /\ heap[1].out[1].req = 0
    /\ ~heap[1].out[1].isSlow

\* ---------------------------------------------------------------------
\* C28: in multi-request parsing, when a response of the state does not
\* parse or matches no request, the parser yields no record for the
\* state, none for the responses paired earlier in the loop either, and
\* the next parser or the fallback gives the records.
\* Every request is a DNS message and some response is not, or has the
\* DnsId and domain of no request
ResponseRejected(mps) ==
    /\ mps.requests # <<>>
    /\ \A i \in 1 .. Len(mps.requests) : mps.requests[i].data.proto = "dns"
    /\ DnsRejects(mps)

C28_AllOrNothing ==
    [][ParseStep /\ ResponseRejected(ParsedState) =>
         /\ \A i \in 1 .. Len(ParsedRecords) :
               /\ ParsedRecords[i].req = 0
               /\ ParsedRecords[i].attrs.id = 0
         /\ portCount'["dns"] = portCount["dns"]
         /\ ~InList(cachedParsers'[getPort(ParsedState)], "dns")
               \/ InList(cachedParsers[getPort(ParsedState)], "dns")
         /\ staticPortMap(getPort(ParsedState)) = "" =>
               ParsedRecords = RecordsOf("generic")
         /\ staticPortMap(getPort(ParsedState)) # "" =>
               /\ Len(ParsedRecords) = 1
               /\ ParsedRecords[1].protocol = staticPortMap(getPort(ParsedState))
               /\ ParsedRecords[1].attrs.nil]_vars

\* C28 witness: of two responses to a DNS request the first has the
\* request's DnsId and the second has not; with the dns parser cached for
\* the port, the one record emitted is the generic parser's
C28_Witness ==
    /\ heap # <<>>
    /\ heap[1].parsed = 1
    /\ getPort(heap[1]) = DynPort
    /\ cachedParsers[DynPort] = <<"dns">>
    /\ Len(heap[1].requests) = 1
    /\ Len(heap[1].responses) = 2
    /\ heap[1].requests[1].data = DnsData(1, 1, 0)
    /\ heap[1].responses[1].data = DnsData(1, 1, 0)
    /\ heap[1].responses[2].data = DnsData(2, 1, 0)
    /\ Len(heap[1].out) = 1
    /\ heap[1].out[1].protocol = "NOSUPPORT"
    /\ heap[1].out[1].req = 0

\* ---------------------------------------------------------------------
\* C29: the dnsIp of a well-formed DNS response is the list of the IPv4
\* addresses of all its type-A answers in wire order, each answer found
\* by advancing past the previous answer once; non-A answers are skipped
\* and dnsIp is absent when there is no type-A answer.
\* The rdata of the type-A records of an answer section, in order
RECURSIVE AddressesOf(_)
AddressesOf(answers) ==
    IF answers = <<>> THEN <<>>
    ELSE (IF answers[1].type = TypeA THEN <<answers[1].rdata>> ELSE <<>>)
         \o AddressesOf(Tail(answers))

C29_DnsIp ==
    (heap # <<>> /\ heap[1].parsed = 1 /\ heap[1].responses # <<>>) =>
        \A i \in 1 .. Len(heap[1].out) :
           heap[1].out[i].resp # 0 =>
              heap[1].out[i].attrs.ip =
                 AddressesOf(heap[1].responses[heap[1].out[i].resp].data.answers)

====
